---- MODULE Spec2Model ----
(***************************************************************************)
(* Model of the backend: the email drafting specialist of                 *)
(* agents/gmail.py (GmailAgent: response parser, email type inference,     *)
(* tone guidance, context builder, draft_email), the Composio adapters of  *)
(* utils/composio_adapters.py (HubSpotMCP, NotionMCP) and the CRM agent of *)
(* agents/hubspot_composio.py with its tool of graph/tools.py.  Python     *)
(* strings are TLA+ strings; every string operation (strip, split, upper,  *)
(* lower, startswith, substring test, join, replace) is computed character *)
(* by character.                                                           *)
(***************************************************************************)
EXTENDS Integers, Sequences, FiniteSets, TLC

VARIABLES
    fn,              \* which function of GmailAgent is being run
    pc,              \* position inside that function
    response,        \* _parse_email_response: the raw LLM response
    lines,           \* _parse_email_response: response.strip().split('\n')
    idx,             \* _parse_email_response: index of the next line of the for loop
    subject,         \* _parse_email_response: local subject
    body_lines,      \* _parse_email_response: local body_lines
    in_body,         \* _parse_email_response: local in_body
    body,            \* _parse_email_response: local body
    intent,          \* _infer_email_type: argument intent
    crm_context,     \* _infer_email_type: argument crm_context
    email_type,      \* _infer_email_type: result / _get_tone_guidance: argument
    sales_stage,     \* _get_tone_guidance: argument sales_stage
    relationship_history, \* _get_tone_guidance: argument relationship_history
    tone,            \* _get_tone_guidance: result
    contact_info,    \* draft_email / _build_email_context: argument contact_info
    company_info,    \* draft_email / _build_email_context: argument company_info
    result,          \* draft_email / _build_email_context: the returned value
    mcp,             \* the HubSpotMCP instance of the agent: use_mock, hubspot_tools
    notion,          \* the NotionMCP instance: use_mock, notion_tools
    built,           \* history: how the adapter instance was constructed
    crm_store,       \* the companies held by the live HubSpot account, oldest first
    hash_seed,       \* the seed of str hashing of the running Python process
    run,             \* the number of the running process, counted from 1
    last,            \* the last operation: entry point, arguments, adapter calls, result
    seen,            \* history: a remembered mock search: key, result, repeated or not
    first_id,        \* history: a remembered mock creation: run, name, id
    tasks            \* the create_company coroutines in flight: position and locals

vars == <<fn, pc, response, lines, idx, subject, body_lines, in_body, body,
          intent, crm_context, email_type, sales_stage, relationship_history, tone,
          contact_info, company_info, result,
          mcp, notion, built, crm_store, hash_seed, run, last, seen, first_id,
          tasks>>

draftVars == <<contact_info, company_info, result>>
crmVars == <<mcp, notion, built, crm_store, hash_seed, run, last, seen, first_id,
            tasks>>

parseVars == <<response, lines, idx, subject, body_lines, in_body, body>>
inferVars == <<intent, crm_context>>
toneVars == <<sales_stage, relationship_history, tone>>

\* Python's None where a dict is expected, and the value of an unassigned local
None == [none |-> TRUE]
\* Python's None where a str is expected; no string of the model equals it
NoneStr == "<None>"

\* the functions of GmailAgent use no adapter, no store and no process state
NoCrm ==
    /\ mcp = None /\ notion = None /\ built = None /\ crm_store = None
    /\ hash_seed = None /\ run = None /\ last = None /\ seen = None /\ first_id = None
    /\ tasks = None

-----------------------------------------------------------------------------
(* Python str primitives *)

LowerAlpha == "abcdefghijklmnopqrstuvwxyz"
UpperAlpha == "ABCDEFGHIJKLMNOPQRSTUVWXYZ"
AlphaIdx == 1..Len(LowerAlpha)

CharAt(s, i) == SubSeq(s, i, i)

\* str.upper / str.lower on one character
UpperMap == [c \in {CharAt(LowerAlpha, i) : i \in AlphaIdx} |->
                CharAt(UpperAlpha, CHOOSE i \in AlphaIdx : CharAt(LowerAlpha, i) = c)]
LowerMap == [c \in {CharAt(UpperAlpha, i) : i \in AlphaIdx} |->
                CharAt(LowerAlpha, CHOOSE i \in AlphaIdx : CharAt(UpperAlpha, i) = c)]

RECURSIVE MapChars(_, _, _)
MapChars(m, s, i) ==
    IF i > Len(s) THEN ""
    ELSE LET c == CharAt(s, i)
         IN (IF c \in DOMAIN m THEN m[c] ELSE c) \o MapChars(m, s, i + 1)

\* str.upper()
Upper(s) == MapChars(UpperMap, s, 1)
\* str.lower()
Lower(s) == MapChars(LowerMap, s, 1)

\* the characters str.strip() removes
Whitespace == {" ", "\n", "\t", "\r"}
IsSpace(c) == c \in Whitespace

RECURSIVE FirstNonSpace(_, _)
FirstNonSpace(s, i) ==
    IF i > Len(s) THEN i
    ELSE IF IsSpace(CharAt(s, i)) THEN FirstNonSpace(s, i + 1) ELSE i

RECURSIVE LastNonSpace(_, _)
LastNonSpace(s, i) ==
    IF i < 1 THEN i
    ELSE IF IsSpace(CharAt(s, i)) THEN LastNonSpace(s, i - 1) ELSE i

\* str.strip()
Strip(s) ==
    LET a == FirstNonSpace(s, 1)
        b == LastNonSpace(s, Len(s))
    IN IF a > b THEN "" ELSE SubSeq(s, a, b)

\* position of the first occurrence of character c in s at or after i, Len(s)+1 if none
RECURSIVE IndexOf(_, _, _)
IndexOf(s, c, i) ==
    IF i > Len(s) THEN i
    ELSE IF CharAt(s, i) = c THEN i ELSE IndexOf(s, c, i + 1)

\* str.split(sep) for a one-character separator
RECURSIVE SplitFrom(_, _, _)
SplitFrom(s, sep, i) ==
    LET j == IndexOf(s, sep, i)
    IN IF j > Len(s) THEN <<SubSeq(s, i, Len(s))>>
       ELSE <<SubSeq(s, i, j - 1)>> \o SplitFrom(s, sep, j + 1)

Split(s, sep) == SplitFrom(s, sep, 1)

\* str.split(sep, 1)[1]: what follows the first separator
AfterFirst(s, sep) == SubSeq(s, IndexOf(s, sep, 1) + 1, Len(s))

\* sep.join(seq)
RECURSIVE Join(_, _)
Join(seq, sep) ==
    IF Len(seq) = 0 THEN ""
    ELSE IF Len(seq) = 1 THEN seq[1]
    ELSE seq[1] \o sep \o Join(Tail(seq), sep)

\* str.startswith(p)
StartsWith(s, p) == Len(s) >= Len(p) /\ SubSeq(s, 1, Len(p)) = p

\* p in s
Contains(s, p) == \E i \in 1..(Len(s) - Len(p) + 1) : SubSeq(s, i, i + Len(p) - 1) = p

-----------------------------------------------------------------------------
(* GmailAgent._parse_email_response *)

\* the heuristic subject threshold: len(line_stripped) <= 80
SubjectMax == 80
\* the heuristic candidate threshold: len(line_stripped) < 100
CandidateMax == 100
\* the fallback threshold: len(first_line) <= 100
FallbackMax == 100
\* the default subject
DefaultSubject == "Following up"

\* response.strip().split('\n')
ResponseLines(resp) == Split(Strip(resp), "\n")

\* IsSubjectTag without the upper(): the tag is matched case-sensitively
IsSubjectTagCaseSensitive(line_stripped) == StartsWith(line_stripped, "SUBJECT:")

\* line_stripped.upper().startswith("SUBJECT:") / ("BODY:")
IsSubjectTag(line_stripped) == StartsWith(Upper(line_stripped), "SUBJECT:")
IsBodyTag(line_stripped) == StartsWith(Upper(line_stripped), "BODY:")

\* one iteration of the for loop over lines; st = [subject, body_lines, in_body]
LoopStep(st, line) ==
    LET line_stripped == Strip(line)
    IN IF IsSubjectTag(line_stripped)
         THEN [st EXCEPT !.subject = Strip(AfterFirst(line_stripped, ":"))]
       ELSE IF IsBodyTag(line_stripped)
         THEN [st EXCEPT !.in_body = TRUE]
       ELSE IF st.in_body
         THEN [st EXCEPT !.body_lines = Append(@, line)]
       ELSE IF st.subject = "" /\ ~st.in_body
               /\ Len(line_stripped) < CandidateMax /\ line_stripped # ""
         THEN IF Len(line_stripped) <= SubjectMax
                THEN [st EXCEPT !.subject = line_stripped, !.in_body = TRUE]
                ELSE [st EXCEPT !.body_lines = Append(@, line), !.in_body = TRUE]
       ELSE [st EXCEPT !.body_lines = Append(@, line), !.in_body = TRUE]

\* JoinedBody joining with a space instead of a newline
JoinedBodyOnOneLine(bl) == Strip(Join(bl, " "))

\* body = '\n'.join(body_lines).strip()
JoinedBody(bl) == Strip(Join(bl, "\n"))

\* the "if not subject" fallback; r = [subject, body]
SubjectFallback(resp, r) ==
    IF r.subject # "" THEN r
    ELSE LET first_line == IF Strip(resp) # "" THEN Split(Strip(resp), "\n")[1] ELSE ""
         IN IF Len(first_line) <= FallbackMax
              THEN [subject |-> first_line,
                    body |-> Strip(Join(Tail(Split(Strip(resp), "\n")), "\n"))]
              ELSE [r EXCEPT !.subject = DefaultSubject]

\* the "if not body" fallback
BodyFallback(resp, r) ==
    IF r.body # "" THEN r ELSE [r EXCEPT !.body = Strip(resp)]

-----------------------------------------------------------------------------
(* Inputs of _parse_email_response *)

\* most lines of a generated response
MaxLines == 3
\* most body lines of a generated tagged or untagged draft
MaxBodyLines == 2

RECURSIVE Rep(_, _)
Rep(c, n) == IF n <= 0 THEN "" ELSE c \o Rep(c, n - 1)

\* lines of exactly n characters, around the three thresholds
LineOfLen(n) == Rep("a", n)

LineSet ==
    { "", " x ", "SUBJECT: Hi", "SUBJECT:", " Body: y",
      LineOfLen(SubjectMax), LineOfLen(SubjectMax + 1),
      LineOfLen(FallbackMax), LineOfLen(FallbackMax + 1) }

SeqsUpTo(S, n) == UNION { [1..k -> S] : k \in 0..n }

\* any lines, joined by newlines
GeneralInputs == { Join(ls, "\n") : ls \in SeqsUpTo(LineSet, MaxLines) \ {<<>>} }

SubjectLineSet ==
    { "SUBJECT: Hi", "subject: Re: a ", " Subject:x", "SUBJECT:  ",
      "Subject: " \o LineOfLen(SubjectMax + 1) }
BodyTagSet == { "BODY:", " Body: " }
BodyLineSet == { "", "Line1", "Line2", "  x: y ", LineOfLen(FallbackMax + 1) }
Bodies == { Join(ls, "\n") : ls \in SeqsUpTo(BodyLineSet, MaxBodyLines) \ {<<>>} }

\* the format the prompt asks for: SUBJECT: line, BODY: line, body lines
TaggedInputs ==
    { s \o "\n" \o b : s \in SubjectLineSet, b \in BodyTagSet }
    \cup { s \o "\n" \o b \o "\n" \o t : s \in SubjectLineSet, b \in BodyTagSet, t \in Bodies }

FirstLineSet == { "Short subject line", " Hi ", "Re: x", LineOfLen(SubjectMax) }
\* an untagged draft: a first line, then body lines
UntaggedInputs ==
    FirstLineSet \cup { f \o "\n" \o t : f \in FirstLineSet, t \in Bodies }

ParseInputs == GeneralInputs \cup TaggedInputs \cup UntaggedInputs

-----------------------------------------------------------------------------
(* _parse_email_response as a state machine over the lines *)

InitParse ==
    /\ fn = "parse"
    /\ NoCrm
    /\ pc = "loop"
    /\ response \in ParseInputs
    /\ lines = ResponseLines(response)
    /\ idx = 1
    /\ subject = ""
    /\ body_lines = <<>>
    /\ in_body = FALSE
    /\ body = None
    /\ intent = None /\ crm_context = None /\ email_type = None
    /\ sales_stage = None /\ relationship_history = None /\ tone = None
    /\ contact_info = None /\ company_info = None /\ result = None

\* one iteration of "for line in lines"
ParseLine ==
    /\ fn = "parse" /\ pc = "loop"
    /\ idx <= Len(lines)
    /\ LET st == LoopStep([subject |-> subject, body_lines |-> body_lines,
                           in_body |-> in_body], lines[idx])
       IN /\ subject' = st.subject
          /\ body_lines' = st.body_lines
          /\ in_body' = st.in_body
    /\ idx' = idx + 1
    /\ UNCHANGED <<fn, pc, response, lines, body, intent, crm_context, email_type,
                   sales_stage, relationship_history, tone, draftVars, crmVars>>

\* after the loop: join the body, apply the two fallbacks, return (subject, body)
ParseReturn ==
    /\ fn = "parse" /\ pc = "loop"
    /\ idx > Len(lines)
    /\ LET r == BodyFallback(response,
                  SubjectFallback(response,
                    [subject |-> subject, body |-> JoinedBody(body_lines)]))
       IN /\ subject' = r.subject
          /\ body' = r.body
    /\ pc' = "done"
    /\ UNCHANGED <<fn, response, lines, idx, body_lines, in_body, intent, crm_context,
                   email_type, sales_stage, relationship_history, tone, draftVars, crmVars>>

NextParse == ParseLine \/ ParseReturn

SpecParse == InitParse /\ [][NextParse]_vars

-----------------------------------------------------------------------------
(* Properties of _parse_email_response *)

Returned == fn = "parse" /\ pc = "done"

\* the input as the caller wrote it, line by line
RawLines(resp) == Split(resp, "\n")
\* the line, trimmed, starts with the tag in any letter case
HasTag(l, tag) == StartsWith(Upper(Strip(l)), tag)
IsTagLine(l) == HasTag(l, "SUBJECT:") \/ HasTag(l, "BODY:")
\* what a SUBJECT: line carries after its colon, trimmed
TagValue(l) == Strip(AfterFirst(Strip(l), ":"))
\* lines i.. of the input, joined and trimmed
RestFrom(resp, i) == Strip(Join(SubSeq(RawLines(resp), i, Len(RawLines(resp))), "\n"))

\* C1 (as claimed): every returned subject is non-empty and at most 80 characters long.
C1_SubjectNonEmptyAtMost80 ==
    Returned => (subject # "" /\ Len(subject) <= SubjectMax)

\* C2 (as claimed): a blank input (empty or whitespace only) returns the subject
\* "Following up" and the body "".
C2_BlankGivesSentinel ==
    (Returned /\ Strip(response) = "") => (subject = "Following up" /\ body = "")

\* a line 'SUBJECT: s' with a value, a line 'BODY:', then body lines without a tag line
TaggedDraft(resp) ==
    LET rl == RawLines(resp)
    IN /\ Len(rl) >= 3
       /\ HasTag(rl[1], "SUBJECT:") /\ TagValue(rl[1]) # ""
       /\ Upper(Strip(rl[2])) = "BODY:"
       /\ \A i \in 3..Len(rl) : ~IsTagLine(rl[i])

\* C3 (as claimed): a tagged draft returns subject = s trimmed and body = the body
\* lines joined by newlines and trimmed, whatever the body lines are.
C3_TaggedAsClaimed ==
    (Returned /\ TaggedDraft(response)) =>
        (subject = TagValue(RawLines(response)[1]) /\ body = RestFrom(response, 3))

\* C3 (amended): a tagged draft, its tags in any letter case, returns subject = s
\* trimmed; the body is the body lines joined by newlines and trimmed when they hold
\* a non-whitespace character, and the whole trimmed input when they are all blank.
C3_Tagged ==
    (Returned /\ TaggedDraft(response)) =>
        /\ subject = TagValue(RawLines(response)[1])
        /\ body = IF RestFrom(response, 3) # "" THEN RestFrom(response, 3)
                  ELSE Strip(response)

\* a lower-case tagged draft with a body of several lines has been parsed
C3_Witness ==
    /\ Returned /\ TaggedDraft(response)
    /\ StartsWith(response, "subject:")
    /\ Contains(RestFrom(response, 3), "\n")
    /\ body = RestFrom(response, 3)

\* no tag line, and a first line that is non-empty and at most 80 characters, trimmed
UntaggedDraft(resp) ==
    LET rl == RawLines(resp)
    IN /\ \A i \in 1..Len(rl) : ~IsTagLine(rl[i])
       /\ Strip(rl[1]) # "" /\ Len(Strip(rl[1])) <= SubjectMax

\* C4 (as claimed): an untagged draft returns its first line as the subject and the
\* remaining lines, joined and trimmed, as the body.
C4_UntaggedAsClaimed ==
    (Returned /\ UntaggedDraft(response)) =>
        (subject = Strip(RawLines(response)[1]) /\ body = RestFrom(response, 2))

\* C4 (amended): an untagged draft returns its first line, trimmed, as the subject;
\* the body is the remaining lines joined and trimmed when they hold a
\* non-whitespace character, and the whole trimmed input when there are none.
C4_Untagged ==
    (Returned /\ UntaggedDraft(response)) =>
        /\ subject = Strip(RawLines(response)[1])
        /\ body = IF RestFrom(response, 2) # "" THEN RestFrom(response, 2)
                  ELSE Strip(response)

\* an untagged draft with a first line of exactly 80 characters and a body of
\* several lines has been parsed
C4_Witness ==
    /\ Returned /\ UntaggedDraft(response)
    /\ Len(subject) = SubjectMax
    /\ Contains(body, "\n")
    /\ body = RestFrom(response, 2)

\* no SUBJECT: tag carries a value and the first line is longer than 80 characters
NoUsableSubject(resp) ==
    LET sl == Split(Strip(resp), "\n")
    IN /\ \A i \in 1..Len(sl) : HasTag(sl[i], "SUBJECT:") => TagValue(sl[i]) = ""
       /\ Len(Strip(sl[1])) > SubjectMax

\* C5 (as claimed): an input with no usable subject returns the sentinel subject.
C5_NoSubjectGivesSentinel ==
    (Returned /\ NoUsableSubject(response)) => subject = "Following up"

\* C6 (as claimed): when the scan of the lines collected no body text the body is
\* the whole trimmed input, and a non-blank input never returns an empty body.
C6_NoBodyGivesWholeInput ==
    Returned =>
        /\ (JoinedBody(body_lines) = "" => body = Strip(response))
        /\ (Strip(response) # "" => body # "")

-----------------------------------------------------------------------------
(* GmailAgent._infer_email_type *)

\* a Python dict is a function from its keys; {} is the function with no key
EmptyDict == [k \in {} |-> ""]
\* bool(d) for an Optional[Dict]
Truthy(d) == d # None /\ DOMAIN d # {}
\* d.get(key, default)
Get(d, key, default) == IF key \in DOMAIN d THEN d[key] ELSE default

\* any(word in s for word in words)
AnyIn(s, words) == \E w \in words : Contains(s, w)

InitialKeywords == {"initial", "first", "outreach", "cold", "introduction"}
DemoKeywords == {"demo", "demonstration"}
PreDemoKeywords == {"scheduled", "upcoming", "pre-", "before"}
PostDemoKeywords == {"after", "post", "following"}
FollowUpKeywords == {"follow", "follow-up", "followup", "checking in"}
ClosingKeywords == {"close", "closing", "final", "decision"}

EmailTypes == {"initial_outreach", "follow_up", "demo_scheduled", "post_demo", "closing"}

\* IntentEmailType with the demo keywords tested before the initial-outreach ones
IntentEmailTypeDemoFirst(intent_lower) ==
    IF AnyIn(intent_lower, DemoKeywords)
      THEN IF AnyIn(intent_lower, PreDemoKeywords) THEN "demo_scheduled" ELSE "post_demo"
    ELSE IF AnyIn(intent_lower, InitialKeywords) THEN "initial_outreach"
    ELSE IF AnyIn(intent_lower, FollowUpKeywords) THEN "follow_up"
    ELSE IF AnyIn(intent_lower, ClosingKeywords) THEN "closing"
    ELSE NoneStr

\* the if/elif chain over the intent keywords; None when no branch returns
IntentEmailType(intent_lower) ==
    IF AnyIn(intent_lower, InitialKeywords) THEN "initial_outreach"
    ELSE IF AnyIn(intent_lower, DemoKeywords)
      THEN IF AnyIn(intent_lower, PreDemoKeywords) THEN "demo_scheduled"
           ELSE IF AnyIn(intent_lower, PostDemoKeywords) THEN "post_demo"
           ELSE "post_demo"
    ELSE IF AnyIn(intent_lower, FollowUpKeywords) THEN "follow_up"
    ELSE IF AnyIn(intent_lower, ClosingKeywords) THEN "closing"
    ELSE NoneStr

\* StageEmailType with the closing stages tested before the qualified/lead ones
StageEmailTypeClosingFirst(crm) ==
    IF Truthy(crm)
      THEN LET deal_stage == Lower(Get(crm, "deal_stage", ""))
           IN IF Contains(deal_stage, "demo") /\ Contains(deal_stage, "scheduled")
                THEN "demo_scheduled"
              ELSE IF Contains(deal_stage, "demo") THEN "post_demo"
              ELSE IF Contains(deal_stage, "closing") \/ Contains(deal_stage, "negotiation")
                THEN "closing"
              ELSE IF AnyIn(deal_stage, {"qualified", "lead"}) THEN "follow_up"
              ELSE "follow_up"
      ELSE "follow_up"

\* the inference from crm_context, and the default
StageEmailType(crm) ==
    IF Truthy(crm)
      THEN LET deal_stage == Lower(Get(crm, "deal_stage", ""))
           IN IF Contains(deal_stage, "demo") /\ Contains(deal_stage, "scheduled")
                THEN "demo_scheduled"
              ELSE IF Contains(deal_stage, "demo") THEN "post_demo"
              ELSE IF AnyIn(deal_stage, {"qualified", "lead"}) THEN "follow_up"
              ELSE IF Contains(deal_stage, "closing") \/ Contains(deal_stage, "negotiation")
                THEN "closing"
              ELSE "follow_up"
      ELSE "follow_up"

\* infer_email_type without intent.lower()
infer_email_type_case_sensitive(i, crm) ==
    LET t == IntentEmailType(i)
    IN IF t # NoneStr THEN t ELSE StageEmailType(crm)

infer_email_type(i, crm) ==
    LET intent_lower == Lower(i)
        t == IntentEmailType(intent_lower)
    IN IF t # NoneStr THEN t ELSE StageEmailType(crm)

-----------------------------------------------------------------------------
(* Inputs of _infer_email_type *)

\* most phrases of a generated intent
MaxPhrases == 2

IntentPhrases ==
    { "Cold", "FIRST", "introduction", "demo", "pre-demo", "Upcoming Demonstration",
      "after the demo", "follow-up", "checking in", "following", "close",
      "final decision", "hello", "thanks" }

Intents == { Join(ps, " ") : ps \in SeqsUpTo(IntentPhrases, MaxPhrases) }

DealStages ==
    { "", "Demo Scheduled", "scheduled demo", "Demo", "qualified", "Lead - closing",
      "Negotiation", "closing", "won" }

CrmContexts ==
    { None, EmptyDict, [deal_amount |-> "100"] }
    \cup { [deal_stage |-> s] : s \in DealStages }

InitInfer ==
    /\ fn = "infer"
    /\ NoCrm
    /\ pc = "call"
    /\ intent \in Intents
    /\ crm_context \in CrmContexts
    /\ email_type = NoneStr
    /\ response = None /\ lines = None /\ idx = None /\ subject = None
    /\ body_lines = None /\ in_body = None /\ body = None
    /\ sales_stage = None /\ relationship_history = None /\ tone = None
    /\ contact_info = None /\ company_info = None /\ result = None

InferEmailType ==
    /\ fn = "infer" /\ pc = "call"
    /\ email_type' = infer_email_type(intent, crm_context)
    /\ pc' = "done"
    /\ UNCHANGED <<fn, parseVars, inferVars, toneVars, draftVars, crmVars>>

NextInfer == InferEmailType

SpecInfer == InitInfer /\ [][NextInfer]_vars

-----------------------------------------------------------------------------
(* Properties of _infer_email_type *)

Inferred == fn = "infer" /\ pc = "done"

\* C7: an intent containing "cold" or "first" in any letter case is typed
\* initial_outreach, whatever the crm_context is.
C7_ColdOrFirstIsInitialOutreach ==
    (Inferred /\ (Contains(Lower(intent), "cold") \/ Contains(Lower(intent), "first")))
        => email_type = "initial_outreach"

\* an upper-case "FIRST" beside a demo phrase, with a deal stage that says closing
C7_Witness ==
    /\ Inferred
    /\ Contains(intent, "FIRST") /\ Contains(intent, "demo")
    /\ crm_context = [deal_stage |-> "closing"]
    /\ email_type = "initial_outreach"

\* the keyword group of highest priority present in the intent, "none" when none is
IntentGroup(s) ==
    IF AnyIn(s, InitialKeywords) THEN "initial"
    ELSE IF AnyIn(s, DemoKeywords) THEN "demo"
    ELSE IF AnyIn(s, FollowUpKeywords) THEN "follow_up"
    ELSE IF AnyIn(s, ClosingKeywords) THEN "closing"
    ELSE "none"

\* C8: the intent keywords are matched in the order initial-outreach > demo >
\* follow-up > closing, and a demo intent is demo_scheduled only with a
\* scheduled/upcoming/pre-/before qualifier and post_demo otherwise.
C8_IntentPriority ==
    Inferred =>
        LET g == IntentGroup(Lower(intent))
        IN /\ g = "initial" => email_type = "initial_outreach"
           /\ g = "demo" =>
                email_type = IF \E q \in {"scheduled", "upcoming", "pre-", "before"} :
                                    Contains(Lower(intent), q)
                             THEN "demo_scheduled" ELSE "post_demo"
           /\ g = "follow_up" => email_type = "follow_up"
           /\ g = "closing" => email_type = "closing"

\* a qualified demo intent that also carries a follow-up keyword
C8_Witness ==
    /\ Inferred
    /\ Contains(intent, "pre-demo") /\ Contains(intent, "follow-up")
    /\ email_type = "demo_scheduled"

-----------------------------------------------------------------------------
(* GmailAgent._get_tone_guidance *)

\* tone_map
ToneMap ==
    [ lead |-> "Professional but warm. Focus on value proposition and building initial rapport.",
      qualified |-> "More conversational. Build rapport while demonstrating expertise.",
      demo_scheduled |-> "Enthusiastic and helpful. Set clear expectations and build excitement.",
      negotiation |-> "Direct and solution-focused. Address concerns proactively.",
      closing |-> "Confident and supportive. Remove friction and make decision easy." ]

DefaultTone == "Professional, friendly, and value-focused."

FirstContactTone == " This is the first contact, so maintain a professional tone."
EstablishedTone ==
    " You have an established relationship, so you can be more casual and friendly."
InitialOutreachTone == " Keep it concise and avoid being too salesy."
FollowUpTone == " Reference previous conversations naturally and show continuity."

\* the interaction count above which the relationship is established
EstablishedAbove == 3

\* base_tone = tone_map.get(sales_stage.lower(), default_tone) if sales_stage else default_tone
BaseTone(stage) ==
    IF stage # NoneStr /\ stage # ""
      THEN Get(ToneMap, Lower(stage), DefaultTone)
      ELSE DefaultTone

\* the adjustment based on relationship history
RelationshipAdjust(base_tone, history) ==
    IF Truthy(history)
      THEN LET interaction_count == Get(history, "interaction_count", 0)
           IN IF interaction_count = 0 THEN base_tone \o FirstContactTone
              ELSE IF interaction_count > EstablishedAbove THEN base_tone \o EstablishedTone
              ELSE base_tone
      ELSE base_tone

\* TypeAdjust replacing the tone instead of appending to it
TypeAdjustReplacing(base_tone, etype) ==
    IF etype = "initial_outreach" THEN InitialOutreachTone
    ELSE IF etype = "follow_up" THEN FollowUpTone
    ELSE base_tone

\* the adjustment based on email type
TypeAdjust(base_tone, etype) ==
    IF etype = "initial_outreach" THEN base_tone \o InitialOutreachTone
    ELSE IF etype = "follow_up" THEN base_tone \o FollowUpTone
    ELSE base_tone

get_tone_guidance(stage, etype, history) ==
    TypeAdjust(RelationshipAdjust(BaseTone(stage), history), etype)

-----------------------------------------------------------------------------
(* Inputs of _get_tone_guidance *)

\* largest interaction count of a generated relationship history
MaxInteractions == 5

SalesStages ==
    { NoneStr, "", "lead", "Qualified", "DEMO_SCHEDULED", "negotiation", "closing",
      "Demo Scheduled", "won" }

Histories ==
    { None, EmptyDict, [last_contact |-> "2024-01-01"] }
    \cup { [interaction_count |-> n] : n \in 0..MaxInteractions }

ToneEmailTypes == EmailTypes \cup { NoneStr, "newsletter" }

InitTone ==
    /\ fn = "tone"
    /\ NoCrm
    /\ pc = "call"
    /\ sales_stage \in SalesStages
    /\ email_type \in ToneEmailTypes
    /\ relationship_history \in Histories
    /\ tone = NoneStr
    /\ response = None /\ lines = None /\ idx = None /\ subject = None
    /\ body_lines = None /\ in_body = None /\ body = None
    /\ intent = None /\ crm_context = None
    /\ contact_info = None /\ company_info = None /\ result = None

GetToneGuidance ==
    /\ fn = "tone" /\ pc = "call"
    /\ tone' = get_tone_guidance(sales_stage, email_type, relationship_history)
    /\ pc' = "done"
    /\ UNCHANGED <<fn, parseVars, inferVars, email_type, sales_stage, relationship_history,
                   draftVars, crmVars>>

NextTone == GetToneGuidance

SpecTone == InitTone /\ [][NextTone]_vars

-----------------------------------------------------------------------------
(* Properties of _get_tone_guidance *)

ToneReturned == fn = "tone" /\ pc = "done"

\* the base tone of a sales stage: its entry in the tone map, else the default tone
ExpectedBase(stage) ==
    IF stage # NoneStr /\ Lower(stage) \in DOMAIN ToneMap THEN ToneMap[Lower(stage)]
    ELSE DefaultTone

\* the relationship qualifiers that may follow the base tone for a history
ExpectedQualifiers(history) ==
    IF history # None /\ "interaction_count" \in DOMAIN history
      THEN IF history.interaction_count = 0 THEN {FirstContactTone}
           ELSE IF history.interaction_count > 3 THEN {EstablishedTone}
           ELSE {""}
      ELSE {"", FirstContactTone}

\* the email-type qualifier
ExpectedTypeQualifier(etype) ==
    IF etype = "initial_outreach" THEN InitialOutreachTone
    ELSE IF etype = "follow_up" THEN FollowUpTone
    ELSE ""

\* C10: the tone is the base tone of the sales stage, then the relationship
\* qualifier (first contact for an interaction count of 0, established for a count
\* above 3, none for 1..3), then the email-type qualifier (initial_outreach and
\* follow_up only); the base tone is a prefix of it.
C10_ToneIsConcatenation ==
    ToneReturned =>
        /\ StartsWith(tone, ExpectedBase(sales_stage))
        /\ \E q \in ExpectedQualifiers(relationship_history) :
              tone = ExpectedBase(sales_stage) \o q \o ExpectedTypeQualifier(email_type)

\* a mixed-case stage, an established relationship and a follow-up: all three parts
C10_Witness ==
    /\ ToneReturned
    /\ sales_stage = "Qualified"
    /\ relationship_history = [interaction_count |-> 4]
    /\ email_type = "follow_up"
    /\ tone = ToneMap.qualified \o EstablishedTone \o FollowUpTone

-----------------------------------------------------------------------------
(* draft_email: the type, the tone and the result of one draft *)

\* the whole of _parse_email_response: the loop over the lines, then the fallbacks
RECURSIVE ParseLoop(_, _, _)
ParseLoop(st, ls, i) ==
    IF i > Len(ls) THEN st ELSE ParseLoop(LoopStep(st, ls[i]), ls, i + 1)

parse_email_response(resp) ==
    LET st == ParseLoop([subject |-> "", body_lines |-> <<>>, in_body |-> FALSE],
                        ResponseLines(resp), 1)
    IN BodyFallback(resp,
         SubjectFallback(resp,
           [subject |-> st.subject, body |-> JoinedBody(st.body_lines)]))

\* email_type = self._infer_email_type(intent, crm_context) if not email_type
DraftEmailType(etype, i, crm) ==
    IF etype = NoneStr \/ etype = "" THEN infer_email_type(i, crm) ELSE etype

\* sales_stage = crm_context.get("deal_stage") if crm_context else None
DraftSalesStage(crm) ==
    IF Truthy(crm) THEN Get(crm, "deal_stage", NoneStr) ELSE NoneStr

\* relationship_history = {"interaction_count": contact_info.get(...) if contact_info else 0}
DraftRelationshipHistory(contact) ==
    [interaction_count |->
        IF Truthy(contact) THEN Get(contact, "interaction_count", 0) ELSE 0]

\* relationship_history if relationship_history["interaction_count"] > 0 else None
DraftHistoryArgument(history) ==
    IF history.interaction_count > 0 THEN history ELSE None

DraftToneGuidance(crm, etype, contact) ==
    get_tone_guidance(DraftSalesStage(crm), etype,
                      DraftHistoryArgument(DraftRelationshipHistory(contact)))

\* tone_guidance[:50]
Prefix(s, n) == IF Len(s) <= n THEN s ELSE SubSeq(s, 1, n)

ReasoningMax == 50
GmailAgentName == "Gmail Agent"
Recipient == "ada@example.com"

\* the dict returned when the LLM answered with content
DraftSuccess(contact, company, crm, etype, stage, tone_guidance, content) ==
    LET parsed == parse_email_response(content)
    IN [ success |-> TRUE,
         recipient |-> Recipient,
         subject |-> parsed.subject,
         body |-> parsed.body,
         context_used |->
            [ contact_info |-> Truthy(contact),
              company_info |-> Truthy(company),
              crm_context |-> Truthy(crm),
              email_type |-> etype,
              sales_stage |-> stage,
              tone_guidance |-> tone_guidance ],
         reasoning |-> "Drafted " \o etype \o " email using "
                         \o Prefix(tone_guidance, ReasoningMax) \o "... tone",
         agent |-> GmailAgentName ]

\* BaseAgent.handle_error
handle_error(name, error, error_type) ==
    [ success |-> FALSE, error |-> error, error_type |-> error_type, agent |-> name ]

-----------------------------------------------------------------------------
(* Inputs of draft_email and the draft as one step *)

DraftIntents == { "cold intro", "follow-up", "hello" }

DraftContacts ==
    { None, EmptyDict, [name |-> "Ada"], [name |-> "Ada", interaction_count |-> 0] }
    \cup { [interaction_count |-> n] : n \in 0..MaxInteractions }

DraftCompanies == { None, [name |-> "Acme"] }

DraftCrmContexts ==
    { None, EmptyDict, [deal_stage |-> "negotiation"], [deal_stage |-> "Demo Scheduled"] }

\* the email_type argument: absent, empty or given
DraftEmailTypeArgs == { NoneStr, "", "closing" }

\* what the LLM answers; "<raise>" stands for llm.ainvoke raising
LlmRaises == "<raise>"
LlmReplies == { "SUBJECT: Hi\nBODY:\nHello there", "Hello", LlmRaises }

InitDraft ==
    /\ fn = "draft"
    /\ NoCrm
    /\ pc = "call"
    /\ intent \in DraftIntents
    /\ contact_info \in DraftContacts
    /\ company_info \in DraftCompanies
    /\ crm_context \in DraftCrmContexts
    /\ email_type \in DraftEmailTypeArgs
    /\ sales_stage = NoneStr
    /\ tone = NoneStr
    /\ result = None
    /\ response = None /\ lines = None /\ idx = None /\ subject = None
    /\ body_lines = None /\ in_body = None /\ body = None
    /\ relationship_history = None

\* one call of draft_email, from the type inference to the returned dict
DraftEmail ==
    /\ fn = "draft" /\ pc = "call"
    /\ \E content \in LlmReplies :
         LET etype == DraftEmailType(email_type, intent, crm_context)
             stage == DraftSalesStage(crm_context)
             history == DraftRelationshipHistory(contact_info)
             tone_guidance == DraftToneGuidance(crm_context, etype, contact_info)
         IN /\ email_type' = etype
            /\ sales_stage' = stage
            /\ relationship_history' = history
            /\ tone' = tone_guidance
            /\ response' = IF content = LlmRaises THEN None ELSE content
            /\ result' = IF content = LlmRaises
                           THEN handle_error(GmailAgentName, "LLM call failed",
                                             "RuntimeError")
                           ELSE DraftSuccess(contact_info, company_info, crm_context,
                                             etype, stage, tone_guidance, content)
    /\ pc' = "done"
    /\ UNCHANGED <<fn, lines, idx, subject, body_lines, in_body, body, intent,
                   crm_context, contact_info, company_info, crmVars>>

NextDraft == DraftEmail

SpecDraft == InitDraft /\ [][NextDraft]_vars

-----------------------------------------------------------------------------
(* Properties of draft_email *)

Drafted == fn = "draft" /\ pc = "done" /\ result.success

\* C11: when draft_email has drafted an email for a contact whose
\* interaction_count is 0, or for no contact_info at all, the tone guidance of
\* the draft (context_used.tone_guidance) contains the first-contact qualifier.
C11_FirstContactQualifier ==
    (Drafted /\ (contact_info = None
                  \/ ("interaction_count" \in DOMAIN contact_info
                       /\ contact_info.interaction_count = 0)))
        => Contains(result.context_used.tone_guidance, FirstContactTone)

-----------------------------------------------------------------------------
(* GmailAgent._build_email_context *)

ContactHeader == "=== CONTACT INFORMATION ==="
CompanyHeader == "=== COMPANY INFORMATION ==="
CrmHeader == "=== CRM CONTEXT ==="
NoContext == "No additional context available."
UnknownName == "Unknown"

\* if d.get(key): context_parts.append(f"{label}{d[key]}")
OptionalLine(d, key, label) ==
    IF key \in DOMAIN d /\ d[key] # "" THEN << label \o d[key] >> ELSE << >>

ContactParts(contact) ==
    IF Truthy(contact)
      THEN << ContactHeader, "Name: " \o Get(contact, "name", UnknownName) >>
           \o OptionalLine(contact, "title", "Title: ")
           \o OptionalLine(contact, "last_contact", "Last contacted: ")
           \o OptionalLine(contact, "previous_interactions", "Previous interactions: ")
      ELSE << >>

CompanyParts(company) ==
    IF Truthy(company)
      THEN << "\n" \o CompanyHeader, "Company: " \o Get(company, "name", UnknownName) >>
           \o OptionalLine(company, "industry", "Industry: ")
           \o OptionalLine(company, "size", "Company size: ")
           \o OptionalLine(company, "recent_news", "Recent news: ")
           \o OptionalLine(company, "tech_stack", "Tech stack: ")
      ELSE << >>

CrmParts(crm) ==
    IF Truthy(crm)
      THEN << "\n" \o CrmHeader >>
           \o OptionalLine(crm, "deal_stage", "Deal stage: ")
           \o OptionalLine(crm, "deal_amount", "Deal amount: ")
           \o OptionalLine(crm, "last_meeting_notes", "Last meeting notes: ")
           \o OptionalLine(crm, "previous_interactions", "Previous interactions: ")
           \o OptionalLine(crm, "pain_points", "Identified pain points: ")
           \o OptionalLine(crm, "next_steps", "Planned next steps: ")
      ELSE << >>

\* "\n".join(context_parts) if context_parts else "No additional context available."
JoinContext(context_parts) ==
    IF context_parts # << >> THEN Join(context_parts, "\n") ELSE NoContext

\* build_email_context emitting the company section before the contact section
build_email_context_company_first(contact, company, crm) ==
    JoinContext(CompanyParts(company) \o ContactParts(contact) \o CrmParts(crm))

build_email_context(contact, company, crm) ==
    JoinContext(ContactParts(contact) \o CompanyParts(company) \o CrmParts(crm))

-----------------------------------------------------------------------------
(* Inputs of _build_email_context and the call as one step *)

ContextContacts ==
    { None, EmptyDict,
      [name |-> "Ada"],
      [title |-> "CTO"],
      [name |-> "Ada", title |-> ""],
      [name |-> "Ada", last_contact |-> "2024-01-01", previous_interactions |-> "2 calls"],
      [email |-> "ada@example.com"] }

ContextCompanies ==
    { None, EmptyDict,
      [name |-> "Acme"],
      [industry |-> "SaaS", size |-> "50"],
      [name |-> "Acme", recent_news |-> "Series B", tech_stack |-> ""] ,
      [name |-> "Acme", tech_stack |-> "Python"] }

ContextCrmContexts ==
    { None, EmptyDict,
      [deal_stage |-> "negotiation"],
      [deal_amount |-> "100", pain_points |-> "churn"],
      [owner |-> "Bo"],
      [deal_stage |-> "", last_meeting_notes |-> "went well",
       previous_interactions |-> "1 email", next_steps |-> "call"] }

InitContext ==
    /\ fn = "context"
    /\ NoCrm
    /\ pc = "call"
    /\ contact_info \in ContextContacts
    /\ company_info \in ContextCompanies
    /\ crm_context \in ContextCrmContexts
    /\ result = None
    /\ response = None /\ lines = None /\ idx = None /\ subject = None
    /\ body_lines = None /\ in_body = None /\ body = None
    /\ intent = None /\ email_type = None
    /\ sales_stage = None /\ relationship_history = None /\ tone = None

BuildEmailContext ==
    /\ fn = "context" /\ pc = "call"
    /\ result' = build_email_context(contact_info, company_info, crm_context)
    /\ pc' = "done"
    /\ UNCHANGED <<fn, parseVars, inferVars, email_type, toneVars, contact_info,
                   company_info, crmVars>>

NextContext == BuildEmailContext

SpecContext == InitContext /\ [][NextContext]_vars

-----------------------------------------------------------------------------
(* Properties of _build_email_context *)

ContextBuilt == fn = "context" /\ pc = "done"

\* the lines of the returned context
OutLines == Split(result, "\n")

SectionHeaders == << ContactHeader, CompanyHeader, CrmHeader >>

\* the input of each section, in the order of SectionHeaders
SectionInput(k) ==
    IF k = 1 THEN contact_info ELSE IF k = 2 THEN company_info ELSE crm_context

NonEmptyInput(d) == d # None /\ d # EmptyDict

\* the position of the first line equal to h, 0 when there is none
PosOf(h) ==
    IF \E i \in 1..Len(OutLines) : OutLines[i] = h
      THEN CHOOSE i \in 1..Len(OutLines) :
             /\ OutLines[i] = h
             /\ \A j \in 1..(i - 1) : OutLines[j] # h
      ELSE 0

\* the section a line belongs to: the number of the last header at or before it
SectionAt(i) ==
    LET before == { j \in 1..i : \E k \in 1..3 : OutLines[j] = SectionHeaders[k] }
    IN IF before = {} THEN 0
       ELSE LET j == CHOOSE j \in before : \A l \in before : l <= j
            IN CHOOSE k \in 1..3 : OutLines[j] = SectionHeaders[k]

\* the optional fields of each section: << section, key, label >>
OptionalFields ==
    { <<1, "title", "Title: ">>, <<1, "last_contact", "Last contacted: ">>,
      <<1, "previous_interactions", "Previous interactions: ">>,
      <<2, "industry", "Industry: ">>, <<2, "size", "Company size: ">>,
      <<2, "recent_news", "Recent news: ">>, <<2, "tech_stack", "Tech stack: ">>,
      <<3, "deal_stage", "Deal stage: ">>, <<3, "deal_amount", "Deal amount: ">>,
      <<3, "last_meeting_notes", "Last meeting notes: ">>,
      <<3, "previous_interactions", "Previous interactions: ">>,
      <<3, "pain_points", "Identified pain points: ">>,
      <<3, "next_steps", "Planned next steps: ">> }

\* the line that always follows a section's header: the name, "Unknown" if absent
NameLabels == << "Name: ", "Company: " >>

FieldPresent(f) ==
    /\ NonEmptyInput(SectionInput(f[1]))
    /\ f[2] \in DOMAIN SectionInput(f[1])
    /\ SectionInput(f[1])[f[2]] # ""

\* line i renders field f: it lies in f's section and reads label then value
RendersField(i, f) ==
    /\ FieldPresent(f)
    /\ SectionAt(i) = f[1]
    /\ OutLines[i] = f[3] \o SectionInput(f[1])[f[2]]

\* C12: _build_email_context emits the contact, company and CRM sections in
\* that order; a section's header is emitted exactly when the section's input
\* is non-empty; inside a section, besides the header and the name line, a line
\* is rendered for an optional field exactly when the field is present, and
\* nothing else is rendered; the result is "No additional context available."
\* exactly when all three inputs are empty or absent.
C12_ContextSections ==
    ContextBuilt =>
      /\ (result = NoContext) <=> (\A k \in 1..3 : ~NonEmptyInput(SectionInput(k)))
      /\ \A k \in 1..3 : (PosOf(SectionHeaders[k]) # 0) <=> NonEmptyInput(SectionInput(k))
      /\ \A k, l \in 1..3 :
            (k < l /\ PosOf(SectionHeaders[k]) # 0 /\ PosOf(SectionHeaders[l]) # 0)
               => PosOf(SectionHeaders[k]) < PosOf(SectionHeaders[l])
      /\ \A f \in OptionalFields :
            FieldPresent(f) <=> (\E i \in 1..Len(OutLines) : RendersField(i, f))
      /\ (result # NoContext) =>
            \A i \in 1..Len(OutLines) :
               \/ OutLines[i] = ""
               \/ \E k \in 1..3 : OutLines[i] = SectionHeaders[k]
               \/ \E k \in 1..2 : /\ SectionAt(i) = k
                                  /\ i = PosOf(SectionHeaders[k]) + 1
                                  /\ StartsWith(OutLines[i], NameLabels[k])
               \/ \E f \in OptionalFields : RendersField(i, f)

\* all three sections, each with optional fields present and absent or empty
C12_Witness ==
    /\ ContextBuilt
    /\ contact_info = [name |-> "Ada", last_contact |-> "2024-01-01",
                       previous_interactions |-> "2 calls"]
    /\ company_info = [industry |-> "SaaS", size |-> "50"]
    /\ crm_context = [deal_stage |-> "", last_meeting_notes |-> "went well",
                      previous_interactions |-> "1 email", next_steps |-> "call"]
    /\ result = "=== CONTACT INFORMATION ===\nName: Ada\nLast contacted: 2024-01-01\n"
                \o "Previous interactions: 2 calls\n\n=== COMPANY INFORMATION ===\n"
                \o "Company: Unknown\nIndustry: SaaS\nCompany size: 50\n\n"
                \o "=== CRM CONTEXT ===\nLast meeting notes: went well\n"
                \o "Previous interactions: 1 email\nPlanned next steps: call"

-----------------------------------------------------------------------------
(* utils/composio_adapters.py: HubSpotMCP *)

\* the Composio actions the adapter looks up in hubspot_tools
SearchCompaniesAction == "HUBSPOT_SEARCH_COMPANIES"
CreateCompanyAction == "HUBSPOT_CREATE_COMPANY"
CreateContactAction == "HUBSPOT_CREATE_CONTACT"
CreateNoteAction == "HUBSPOT_CREATE_NOTE"
HubSpotActions ==
    { SearchCompaniesAction, CreateCompanyAction, CreateContactAction, CreateNoteAction }

\* the outcome of one call of the gateway: it returns or it raises
GatewayOutcomes == { "ok", "raise" }

\* {**base, **overrides}
Merge(base, overrides) ==
    [ k \in DOMAIN base \cup DOMAIN overrides |->
        IF k \in DOMAIN overrides THEN overrides[k] ELSE base[k] ]

\* str.replace(old, new) for a one-character old
RECURSIVE Replace(_, _, _)
Replace(s, old, new) ==
    IF Len(s) = 0 THEN ""
    ELSE (IF CharAt(s, 1) = old THEN new ELSE CharAt(s, 1))
         \o Replace(SubSeq(s, 2, Len(s)), old, new)

\* what one adapter call did: where the answer came from ("mock", "gateway",
\* or "none" when the action is missing from the toolset), whether the gateway
\* raised, the level of the message logged, and the value returned
Call(op, arg, source, raised, logged, res) ==
    [ op |-> op, arg |-> arg, source |-> source, raised |-> raised,
      logged |-> logged, result |-> res ]

\* HubSpotMCP.__init__ raising the initialisation failure to the caller
HubSpotMCPInitRaising(use_mock, env_mock, init) ==
    IF use_mock \/ env_mock
      THEN [ self |-> [use_mock |-> TRUE, hubspot_tools |-> {}],
             raised |-> FALSE, logged |-> "info" ]
      ELSE IF init.raises
        THEN [ self |-> None, raised |-> TRUE, logged |-> "warning" ]
        ELSE [ self |-> [use_mock |-> FALSE, hubspot_tools |-> init.tools],
               raised |-> FALSE, logged |-> "info" ]

\* HubSpotMCP.__init__: use_mock is the argument or the USE_MOCK_MCP environment
\* variable; init is what ComposioToolSet() and get_tools do
HubSpotMCPInit(use_mock, env_mock, init) ==
    IF use_mock \/ env_mock
      THEN [ self |-> [use_mock |-> TRUE, hubspot_tools |-> {}],
             raised |-> FALSE, logged |-> "info" ]
      ELSE IF init.raises
        THEN [ self |-> [use_mock |-> TRUE, hubspot_tools |-> {}],
               raised |-> FALSE, logged |-> "warning" ]
        ELSE [ self |-> [use_mock |-> FALSE, hubspot_tools |-> init.tools],
               raised |-> FALSE, logged |-> "info" ]

\* _get_action: the tool of that name, if the toolset has it
HasAction(self, action) == action \in self.hubspot_tools

MockCompanyUrl == "https://app.hubspot.com/contacts/mock/company/"
MockContactUrl == "https://app.hubspot.com/contacts/mock/contact/"

\* the mock_companies dict of _mock_search_company
mock_companies ==
    [ Stripe |->
        [ id |-> "mock-stripe-001", name |-> "Stripe", domain |-> "stripe.com",
          industry |-> "Financial Services",
          description |-> "Online payment processing",
          url |-> MockCompanyUrl \o "mock-stripe-001" ],
      Notion |->
        [ id |-> "mock-notion-001", name |-> "Notion", domain |-> "notion.so",
          industry |-> "Software",
          description |-> "Productivity and collaboration software",
          url |-> MockCompanyUrl \o "mock-notion-001" ] ]

\* mock_search_company looking the name up as given
mock_search_company_unstripped(company_name) ==
    IF company_name \in DOMAIN mock_companies
      THEN mock_companies[company_name]
      ELSE None

\* mock_companies.get(company_name.strip())
mock_search_company(company_name) ==
    IF Strip(company_name) \in DOMAIN mock_companies
      THEN mock_companies[Strip(company_name)]
      ELSE None

\* hash(s) of a str: a function of the string and of the seed the process drew
\* at start-up (PYTHONHASHSEED); the mixing itself stands for SipHash
HashMod == 1000
PyHash(s, seed) == Len(s) * 131 + seed * 7919 + 17

\* f"mock-{company_name.lower().replace(' ', '-')}-{hash(company_name) % 1000}"
MockCompanyId(company_name, seed) ==
    "mock-" \o Replace(Lower(company_name), " ", "-") \o "-"
            \o ToString(PyHash(company_name, seed) % HashMod)

UnknownCompany == "Unknown Company"

mock_create_company(company_data, seed) ==
    LET company_name == Get(company_data, "name", UnknownCompany)
        mock_id == MockCompanyId(company_name, seed)
    IN Merge([ id |-> mock_id, name |-> company_name,
               url |-> MockCompanyUrl \o mock_id ],
             company_data)

UnknownEmail == "unknown@example.com"

mock_create_contact(contact_data, seed) ==
    LET email == Get(contact_data, "email", UnknownEmail)
        mock_id == "mock-contact-" \o ToString(PyHash(email, seed) % HashMod)
    IN Merge([ id |-> mock_id, url |-> MockContactUrl \o mock_id ], contact_data)

\* _mock_add_note: logs and returns True
mock_add_note(record_id, note_text, record_type) == TRUE

-----------------------------------------------------------------------------
(* The live HubSpot account behind the gateway, and the adapter's operations *)

\* the companies matching a query, at most one ("limit": 1)
RECURSIVE GatewaySearch(_, _)
GatewaySearch(companies, query) ==
    IF companies = << >> THEN << >>
    ELSE IF Head(companies).name = query THEN << Head(companies) >>
    ELSE GatewaySearch(Tail(companies), query)

\* the record the account stores for a created company
GatewayCompany(companies, properties) ==
    Merge(properties, [ id |-> "hs-" \o ToString(Len(companies) + 1) ])

\* the record the account returns for a created contact
GatewayContact(properties) ==
    Merge(properties, [ id |-> "hs-contact" ])

\* the "properties" the adapter sends when creating a company
CompanyProperties(company_data) ==
    [ name |-> Get(company_data, "name", NoneStr),
      domain |-> Get(company_data, "domain", ""),
      industry |-> Get(company_data, "industry", ""),
      description |-> Get(company_data, "description", ""),
      city |-> Get(company_data, "city", ""),
      state |-> Get(company_data, "state", ""),
      country |-> Get(company_data, "country", "") ]

\* the "properties" the adapter sends when creating a contact
ContactProperties(contact_data) ==
    [ email |-> Get(contact_data, "email", NoneStr),
      firstname |-> Get(contact_data, "firstname", ""),
      lastname |-> Get(contact_data, "lastname", ""),
      company |-> Get(contact_data, "company", ""),
      jobtitle |-> Get(contact_data, "jobtitle", ""),
      phone |-> Get(contact_data, "phone", "") ]

\* the mock branch of search_company leaving a trace in the adapter
MockSearchWithSideEffect(self, company_name) ==
    [ self |-> [self EXCEPT !.hubspot_tools = @ \cup { SearchCompaniesAction }],
      call |-> Call("search_company", company_name, "mock", FALSE, "info",
                    mock_search_company(company_name)) ]

\* if self.use_mock: return self._mock_search_company(company_name)
MockSearch(self, company_name) ==
    [ self |-> self,
      call |-> Call("search_company", company_name, "mock", FALSE, "info",
                    mock_search_company(company_name)) ]

\* the except branch of search_company downgrading the adapter to mock mode
SearchRaisedDowngrading(self, company_name) ==
    [ self |-> [self EXCEPT !.use_mock = TRUE],
      call |-> Call("search_company", company_name, "gateway", TRUE, "error", None) ]

\* except Exception as e: logger.error(...); return None
SearchRaised(self, company_name) ==
    [ self |-> self,
      call |-> Call("search_company", company_name, "gateway", TRUE, "error", None) ]

\* HubSpotMCP.search_company; r.self is the adapter after the call
mcp_search_company(self, company_name, gw, store) ==
    IF self.use_mock THEN MockSearch(self, company_name)
    ELSE IF ~HasAction(self, SearchCompaniesAction)
      THEN [ self |-> self,
             call |-> Call("search_company", company_name, "none", FALSE, "error", None) ]
    ELSE IF gw = "raise" THEN SearchRaised(self, company_name)
    ELSE LET found == GatewaySearch(store.companies, company_name)
         IN [ self |-> self,
              call |-> Call("search_company", company_name, "gateway", FALSE, "info",
                            IF Len(found) > 0 THEN found[1] ELSE None) ]

\* HubSpotMCP.create_company; r.store is the account after the call
mcp_create_company(self, company_data, gw, store, seed) ==
    IF self.use_mock
      THEN [ self |-> self, store |-> store,
             call |-> Call("create_company", company_data, "mock", FALSE, "info",
                           mock_create_company(company_data, seed)) ]
    ELSE IF ~HasAction(self, CreateCompanyAction)
      THEN [ self |-> self, store |-> store,
             call |-> Call("create_company", company_data, "none", FALSE, "error", None) ]
    ELSE IF gw = "raise"
      THEN [ self |-> self, store |-> store,
             call |-> Call("create_company", company_data, "gateway", TRUE, "error", None) ]
    ELSE LET created == GatewayCompany(store.companies, CompanyProperties(company_data))
         IN [ self |-> self,
              store |-> [store EXCEPT !.companies = Append(@, created)],
              call |-> Call("create_company", company_data, "gateway", FALSE, "info",
                            created) ]

\* HubSpotMCP.create_contact retrying the initialisation of a mock adapter
mcp_create_contact_retrying_init(self, contact_data, gw, seed) ==
    IF self.use_mock
      THEN [ self |-> [use_mock |-> FALSE, hubspot_tools |-> HubSpotActions],
             call |-> Call("create_contact", contact_data, "gateway", FALSE, "info",
                           GatewayContact(ContactProperties(contact_data))) ]
    ELSE IF ~HasAction(self, CreateContactAction)
      THEN [ self |-> self,
             call |-> Call("create_contact", contact_data, "none", FALSE, "error", None) ]
    ELSE IF gw = "raise"
      THEN [ self |-> self,
             call |-> Call("create_contact", contact_data, "gateway", TRUE, "error", None) ]
    ELSE [ self |-> self,
           call |-> Call("create_contact", contact_data, "gateway", FALSE, "info",
                         GatewayContact(ContactProperties(contact_data))) ]

\* HubSpotMCP.create_contact
mcp_create_contact(self, contact_data, gw, seed) ==
    IF self.use_mock
      THEN [ self |-> self,
             call |-> Call("create_contact", contact_data, "mock", FALSE, "info",
                           mock_create_contact(contact_data, seed)) ]
    ELSE IF ~HasAction(self, CreateContactAction)
      THEN [ self |-> self,
             call |-> Call("create_contact", contact_data, "none", FALSE, "error", None) ]
    ELSE IF gw = "raise"
      THEN [ self |-> self,
             call |-> Call("create_contact", contact_data, "gateway", TRUE, "error", None) ]
    ELSE [ self |-> self,
           call |-> Call("create_contact", contact_data, "gateway", FALSE, "info",
                         GatewayContact(ContactProperties(contact_data))) ]

\* HubSpotMCP.add_note; note = << record_id, note_text, record_type >>
mcp_add_note(self, note, gw, store) ==
    IF self.use_mock
      THEN [ self |-> self, store |-> store,
             call |-> Call("add_note", note, "mock", FALSE, "info",
                           mock_add_note(note[1], note[2], note[3])) ]
    ELSE IF ~HasAction(self, CreateNoteAction)
      THEN [ self |-> self, store |-> store,
             call |-> Call("add_note", note, "none", FALSE, "error", FALSE) ]
    ELSE IF gw = "raise"
      THEN [ self |-> self, store |-> store,
             call |-> Call("add_note", note, "gateway", TRUE, "error", FALSE) ]
    ELSE [ self |-> self,
           store |-> [store EXCEPT !.notes = @ \cup { note }],
           call |-> Call("add_note", note, "gateway", FALSE, "info", TRUE) ]

-----------------------------------------------------------------------------
(* utils/composio_adapters.py: NotionMCP *)

NotionSearchAction == "NOTION_SEARCH"
NotionGetPageAction == "NOTION_GET_PAGE"
NotionActions == { NotionSearchAction, NotionGetPageAction }

\* NotionMCP.__init__
NotionMCPInit(use_mock, env_mock, init) ==
    IF use_mock \/ env_mock
      THEN [ self |-> [use_mock |-> TRUE, notion_tools |-> {}],
             raised |-> FALSE, logged |-> "info" ]
      ELSE IF init.raises
        THEN [ self |-> [use_mock |-> TRUE, notion_tools |-> {}],
               raised |-> FALSE, logged |-> "warning" ]
        ELSE [ self |-> [use_mock |-> FALSE, notion_tools |-> init.tools],
               raised |-> FALSE, logged |-> "info" ]

\* _parse_icp_criteria: the structured criteria of a retrieved page
parsed_icp_criteria ==
    [ company_size |-> [min |-> 50, max |-> 5000],
      industries |-> << "Technology", "SaaS", "E-commerce" >>,
      funding_stage |-> << "Series A", "Series B", "Series C" >>,
      geography |-> << "North America", "Europe" >>,
      growth_indicators |-> << "YoY revenue growth > 50%", "Recent funding round" >> ]

\* _mock_get_icp_criteria
mock_icp_criteria ==
    [ company_size |-> [min |-> 50, max |-> 5000],
      industries |-> << "Technology", "SaaS", "E-commerce", "Financial Services" >>,
      funding_stage |-> << "Series A", "Series B", "Series C", "Series D+" >>,
      geography |-> << "North America", "Europe", "Asia-Pacific" >>,
      growth_indicators |-> << "YoY revenue growth > 50%", "Recent funding round",
                               "Expanding internationally", "Hiring aggressively" >>,
      pain_points |-> << "Payment processing complexity",
                         "International expansion challenges",
                         "Developer experience focus" >> ]

\* _mock_get_document
mock_get_document(document_id) ==
    [ id |-> document_id, title |-> "Mock Document",
      content |-> "This is mock document content from Notion." ]

\* the page the live workspace returns for a page id
GatewayPage(document_id) ==
    [ id |-> document_id, title |-> "ICP", content |-> "Ideal customer profile" ]

\* what the live search for the ICP page can do, and the page fetch after it
NotionSearchOutcomes == { "raise", "empty", "found" }

\* NotionMCP.get_icp_criteria; search and page are the outcomes of the two
\* gateway calls
notion_get_icp_criteria(self, search, page) ==
    IF self.use_mock
      THEN [ self |-> self,
             call |-> Call("get_icp_criteria", "", "mock", FALSE, "info",
                           mock_icp_criteria) ]
    ELSE IF NotionSearchAction \notin self.notion_tools
      THEN [ self |-> self,
             call |-> Call("get_icp_criteria", "", "none", FALSE, "error",
                           mock_icp_criteria) ]
    ELSE IF search = "raise"
      THEN [ self |-> self,
             call |-> Call("get_icp_criteria", "", "gateway", TRUE, "error",
                           mock_icp_criteria) ]
    ELSE IF search = "empty"
      THEN [ self |-> self,
             call |-> Call("get_icp_criteria", "", "gateway", FALSE, "warning",
                           mock_icp_criteria) ]
    ELSE IF NotionGetPageAction \notin self.notion_tools \/ page = "raise"
      THEN [ self |-> self,
             call |-> Call("get_icp_criteria", "", "gateway", TRUE, "error",
                           mock_icp_criteria) ]
    ELSE [ self |-> self,
           call |-> Call("get_icp_criteria", "", "gateway", FALSE, "info",
                         parsed_icp_criteria) ]

\* NotionMCP.get_document
notion_get_document(self, document_id, gw) ==
    IF self.use_mock
      THEN [ self |-> self,
             call |-> Call("get_document", document_id, "mock", FALSE, "info",
                           mock_get_document(document_id)) ]
    ELSE IF NotionGetPageAction \notin self.notion_tools
      THEN [ self |-> self,
             call |-> Call("get_document", document_id, "none", FALSE, "error", None) ]
    ELSE IF gw = "raise"
      THEN [ self |-> self,
             call |-> Call("get_document", document_id, "gateway", TRUE, "error", None) ]
    ELSE [ self |-> self,
           call |-> Call("get_document", document_id, "gateway", FALSE, "info",
                         GatewayPage(document_id)) ]

-----------------------------------------------------------------------------
(* Inputs of the adapters and the adapters as a state machine: one adapter is *)
(* constructed, then called any number of times                              *)

\* most companies the live account holds
MaxStore == 1
\* largest hash seed a process draws
MaxSeed == 1

CompanyNames == { "Stripe", " Notion ", "Acme Corp" }

CompanyDatas ==
    { EmptyDict,
      [name |-> "Acme Corp"],
      [name |-> "Acme Corp", domain |-> "acme.com"],
      [name |-> "Stripe", domain |-> "stripe.com"] }

ContactDatas == { [email |-> "ada@acme.com"], [firstname |-> "Ada"] }

\* << record_id, note_text, record_type >>
Notes == { <<"1", "met at expo", "company">>, <<"1", "met at expo", "deal">> }

DocumentIds == { "page-1" }

\* what ComposioToolSet() and get_tools do: raise, or return a list of tools
InitOutcomes(actions) ==
    { [raises |-> TRUE, tools |-> {}],
      [raises |-> FALSE, tools |-> actions],
      [raises |-> FALSE, tools |-> {}] }

EmptyStore == [ companies |-> << >>, notes |-> {} ]

InitialStores ==
    { EmptyStore,
      [ companies |-> << GatewayCompany(<< >>, CompanyProperties([name |-> "Stripe"])) >>,
        notes |-> {} ] }

\* no function of GmailAgent is part of the run
NoGmail ==
    /\ response = None /\ lines = None /\ idx = None /\ subject = None
    /\ body_lines = None /\ in_body = None /\ body = None
    /\ intent = None /\ crm_context = None /\ email_type = None
    /\ sales_stage = None /\ relationship_history = None /\ tone = None
    /\ contact_info = None /\ company_info = None /\ result = None

gmailVars == <<parseVars, inferVars, email_type, toneVars, draftVars>>

\* the record of one operation: its arguments, the adapter before it, the
\* adapter calls it made, whether it raised to its caller, and what it returned
Operation(entry, op, args, before, calls, raised, res) ==
    [ entry |-> entry, op |-> op, args |-> args, before |-> before, calls |-> calls,
      raised |-> raised, result |-> res ]

InitMcp ==
    /\ fn = "adapter"
    /\ pc = "new"
    /\ NoGmail
    /\ mcp = None /\ notion = None /\ built = None
    /\ crm_store \in InitialStores
    /\ hash_seed \in 0..MaxSeed
    /\ run = 1
    /\ last = None /\ seen = None /\ first_id = None /\ tasks = None

\* HubSpotMCP(use_mock)
ConstructHubSpot ==
    /\ fn = "adapter" /\ pc = "new"
    /\ \E use_mock \in BOOLEAN, env_mock \in BOOLEAN, init \in InitOutcomes(HubSpotActions) :
         LET r == HubSpotMCPInit(use_mock, env_mock, init)
         IN /\ mcp' = r.self
            /\ built' = [ adapter |-> "hubspot", use_mock |-> use_mock,
                          env_mock |-> env_mock, init_raised |-> init.raises ]
            /\ last' = Operation("adapter", "__init__", << use_mock, env_mock >>,
                                 None, << >>, r.raised, None)
    /\ pc' = "built"
    /\ UNCHANGED <<fn, gmailVars, tasks, notion, crm_store, hash_seed, run, seen, first_id>>

\* NotionMCP(use_mock)
ConstructNotion ==
    /\ fn = "adapter" /\ pc = "new"
    /\ \E use_mock \in BOOLEAN, env_mock \in BOOLEAN, init \in InitOutcomes(NotionActions) :
         LET r == NotionMCPInit(use_mock, env_mock, init)
         IN /\ notion' = r.self
            /\ built' = [ adapter |-> "notion", use_mock |-> use_mock,
                          env_mock |-> env_mock, init_raised |-> init.raises ]
            /\ last' = Operation("adapter", "__init__", << use_mock, env_mock >>,
                                 None, << >>, r.raised, None)
    /\ pc' = "built"
    /\ UNCHANGED <<fn, gmailVars, tasks, mcp, crm_store, hash_seed, run, seen, first_id>>

\* await mcp.search_company(company_name)
McpSearchCompany ==
    /\ fn = "adapter" /\ pc = "built" /\ mcp # None
    /\ \E company_name \in CompanyNames, gw \in GatewayOutcomes :
         LET r == mcp_search_company(mcp, company_name, gw, crm_store)
         IN /\ mcp' = r.self
            /\ last' = Operation("adapter", "search_company", << company_name >>,
                                 mcp, << r.call >>, FALSE,
                                 r.call.result)
            /\ \/ seen' = seen
               \/ /\ mcp.use_mock
                  /\ seen' = [ key |-> company_name, result |-> r.call.result,
                               again |-> FALSE ]
               \/ /\ mcp.use_mock /\ seen # None /\ seen.key = company_name
                  /\ seen' = [ seen EXCEPT !.again = TRUE ]
    /\ UNCHANGED <<fn, pc, gmailVars, tasks, notion, built, crm_store, hash_seed, run, first_id>>

\* await mcp.create_company(company_data)
McpCreateCompany ==
    /\ fn = "adapter" /\ pc = "built" /\ mcp # None
    /\ \E company_data \in CompanyDatas, gw \in GatewayOutcomes :
         LET r == mcp_create_company(mcp, company_data, gw, crm_store, hash_seed)
         IN /\ Len(r.store.companies) <= MaxStore
            /\ mcp' = r.self
            /\ crm_store' = r.store
            /\ last' = Operation("adapter", "create_company", << company_data >>,
                                 mcp, << r.call >>, FALSE,
                                 r.call.result)
    /\ seen' = None
    /\ UNCHANGED <<fn, pc, gmailVars, tasks, notion, built, hash_seed, run, first_id>>

\* await mcp.create_contact(contact_data)
McpCreateContact ==
    /\ fn = "adapter" /\ pc = "built" /\ mcp # None
    /\ \E contact_data \in ContactDatas, gw \in GatewayOutcomes :
         LET r == mcp_create_contact(mcp, contact_data, gw, hash_seed)
         IN /\ mcp' = r.self
            /\ last' = Operation("adapter", "create_contact", << contact_data >>,
                                 mcp, << r.call >>, FALSE,
                                 r.call.result)
    /\ UNCHANGED <<fn, pc, gmailVars, tasks, notion, built, crm_store, hash_seed, run, seen,
                   first_id>>

\* await mcp.add_note(record_id, note_text, record_type)
McpAddNote ==
    /\ fn = "adapter" /\ pc = "built" /\ mcp # None
    /\ \E note \in Notes, gw \in GatewayOutcomes :
         LET r == mcp_add_note(mcp, note, gw, crm_store)
         IN /\ mcp' = r.self
            /\ crm_store' = r.store
            /\ last' = Operation("adapter", "add_note", note, mcp, << r.call >>, FALSE,
                                 r.call.result)
    /\ UNCHANGED <<fn, pc, gmailVars, tasks, notion, built, hash_seed, run, seen, first_id>>

\* await notion.get_icp_criteria()
NotionGetIcpCriteria ==
    /\ fn = "adapter" /\ pc = "built" /\ notion # None
    /\ \E search \in NotionSearchOutcomes, page \in GatewayOutcomes :
         LET r == notion_get_icp_criteria(notion, search, page)
         IN /\ notion' = r.self
            /\ last' = Operation("adapter", "get_icp_criteria", << >>,
                                 notion, << r.call >>,
                                 FALSE, r.call.result)
    /\ UNCHANGED <<fn, pc, gmailVars, tasks, mcp, built, crm_store, hash_seed, run, seen,
                   first_id>>

\* await notion.get_document(document_id)
NotionGetDocument ==
    /\ fn = "adapter" /\ pc = "built" /\ notion # None
    /\ \E document_id \in DocumentIds, gw \in GatewayOutcomes :
         LET r == notion_get_document(notion, document_id, gw)
         IN /\ notion' = r.self
            /\ last' = Operation("adapter", "get_document", << document_id >>,
                                 notion, << r.call >>,
                                 FALSE, r.call.result)
    /\ UNCHANGED <<fn, pc, gmailVars, tasks, mcp, built, crm_store, hash_seed, run, seen,
                   first_id>>

NextMcp ==
    \/ ConstructHubSpot \/ ConstructNotion
    \/ McpSearchCompany \/ McpCreateCompany \/ McpCreateContact \/ McpAddNote
    \/ NotionGetIcpCriteria \/ NotionGetDocument

SpecMcp == InitMcp /\ [][NextMcp]_vars

-----------------------------------------------------------------------------
(* Properties of the adapters *)

\* the adapter instance of the run
Adapter == IF built.adapter = "hubspot" THEN mcp ELSE notion

AdapterBuilt == fn = "adapter" /\ built # None

\* the instance was constructed in live mode and the toolset initialisation failed
FellBack ==
    AdapterBuilt /\ ~built.use_mock /\ ~built.env_mock /\ built.init_raised

\* the last operation was a call of the constructed adapter
Called == AdapterBuilt /\ last.op # "__init__"

FixtureRecords == { mock_companies.Stripe, mock_companies.Notion }

\* the value is one the mock data can give for the operation
IsMockAnswer(call) ==
    IF call.op = "search_company"
      THEN call.result = None \/ call.result \in FixtureRecords
    ELSE IF call.op = "get_icp_criteria"
      THEN "pain_points" \in DOMAIN call.result
    ELSE IF call.op = "get_document"
      THEN call.result # None /\ call.result.title = "Mock Document"
    ELSE IF call.op = "add_note"
      THEN call.result = TRUE
    ELSE call.result # None /\ StartsWith(call.result.id, "mock-")

\* C13: when HubSpotMCP or NotionMCP is constructed with use_mock=False and the
\* toolset initialisation fails, the constructor does not raise, the instance
\* is in mock mode, and every later operation on it is answered from the mock
\* data, without a call of the gateway.
C13_InitFailureFallsBackToMock ==
    FellBack =>
      /\ ~last.raised
      /\ Adapter # None
      /\ Adapter.use_mock
      /\ Called =>
           \A i \in 1..Len(last.calls) :
              /\ last.calls[i].source = "mock"
              /\ ~last.calls[i].raised
              /\ IsMockAnswer(last.calls[i])

\* a fallen-back HubSpot adapter answers a search for "Stripe" with the fixture
C13_Witness ==
    /\ FellBack
    /\ built.adapter = "hubspot"
    /\ last.op = "search_company"
    /\ last.calls[1].arg = "Stripe"
    /\ last.result.id = "mock-stripe-001"

\* the mode the constructor left the instance in
ModeAtConstruction == built.use_mock \/ built.env_mock \/ built.init_raised

\* C14: after construction the mode of an adapter never changes: whatever calls
\* were made, succeeding or failing, the instance is in the mode the
\* constructor left it in (mock if mock was asked for or the initialisation
\* failed, live otherwise), and a call leaves the instance, its tool list
\* included, as it was: the initialisation is not retried.
C14_ModeFixedAtConstruction ==
    (AdapterBuilt /\ Adapter # None) =>
      /\ Adapter.use_mock = ModeAtConstruction
      /\ Called => Adapter = last.before

\* a fallen-back adapter, searched, then annotated: still in mock mode
C14_Witness ==
    /\ FellBack
    /\ built.adapter = "hubspot"
    /\ seen # None
    /\ last.op = "add_note"
    /\ mcp.use_mock

\* the last operation was a live call that the gateway failed
LiveCallRaised ==
    /\ Called
    /\ ~last.before.use_mock
    /\ \E i \in 1..Len(last.calls) : last.calls[i].raised

\* C15 as claimed: when a live call of the adapter raised, the adapter is in
\* mock mode afterwards.
C15_FailureDowngradesToMock ==
    LiveCallRaised => Adapter.use_mock

\* the value an operation returns when its live call failed
FailureValue(op) ==
    IF op = "add_note" THEN FALSE
    ELSE IF op = "get_icp_criteria" THEN mock_icp_criteria
    ELSE None

\* C15: when a live call of the CRM or document adapter raises, the failure is
\* logged as an error and the call returns its failure value (None, False for
\* add_note, the mock criteria for get_icp_criteria); the instance stays in
\* live mode, so that its calls are never answered by the mock branch.
C15_FailureKeepsLiveMode ==
    /\ LiveCallRaised =>
         /\ \A i \in 1..Len(last.calls) :
               last.calls[i].raised =>
                  /\ last.calls[i].logged = "error"
                  /\ last.calls[i].result = FailureValue(last.calls[i].op)
         /\ ~Adapter.use_mock
         /\ Adapter = last.before
    /\ (Called /\ ~last.before.use_mock) =>
         \A i \in 1..Len(last.calls) : last.calls[i].source # "mock"

\* a live search for "Stripe" that raised: None is returned, the adapter is live
C15_Witness ==
    /\ LiveCallRaised
    /\ last.op = "search_company"
    /\ last.calls[1].arg = "Stripe"
    /\ last.result = None
    /\ ~mcp.use_mock

\* the last operation was a search answered in mock mode
MockSearched ==
    /\ Called
    /\ last.op = "search_company"
    /\ last.before.use_mock

\* C17: in mock mode a search changes nothing in the adapter, and a search
\* repeated with the same key, no create having been made in between, returns
\* the result of the earlier search.
C17_MockSearchIdempotent ==
    MockSearched =>
      /\ mcp = last.before
      /\ (seen # None /\ seen.again /\ seen.key = last.calls[1].arg)
            => last.result = seen.result

\* "Stripe" searched twice in mock mode, giving the fixture both times
C17_Witness ==
    /\ MockSearched
    /\ seen # None /\ seen.again /\ seen.key = "Stripe"
    /\ last.calls[1].arg = "Stripe"
    /\ last.result = seen.result
    /\ last.result.name = "Stripe"

-----------------------------------------------------------------------------
(* agents/hubspot_composio.py: HubSpotComposioAgent, and graph/tools.py *)

HubSpotAgentName == "HubSpot Composio Agent"

\* HubSpotComposioAgent.search_company
agent_search_company(self, company_name, gw, store) ==
    LET s == mcp_search_company(self, company_name, gw, store)
    IN [ self |-> s.self,
         calls |-> << s.call >>,
         result |->
            IF s.call.result # None
              THEN [ success |-> TRUE, found |-> TRUE, company |-> s.call.result,
                     agent |-> HubSpotAgentName ]
              ELSE [ success |-> TRUE, found |-> FALSE, company |-> None,
                     agent |-> HubSpotAgentName ] ]

\* the three results of create_company
NameRequired ==
    [ success |-> FALSE, error |-> "Company name is required",
      agent |-> HubSpotAgentName ]

AlreadyExists(company_name, existing) ==
    [ success |-> TRUE, created |-> FALSE, exists |-> TRUE, company |-> existing,
      message |-> "Company '" \o company_name \o "' already exists in HubSpot",
      agent |-> HubSpotAgentName ]

Created(company_name, created) ==
    [ success |-> TRUE, created |-> TRUE, exists |-> FALSE, company |-> created,
      message |-> "Successfully created company '" \o company_name \o "' in HubSpot",
      agent |-> HubSpotAgentName ]

CreateFailed ==
    [ success |-> FALSE, error |-> "Failed to create company in HubSpot",
      agent |-> HubSpotAgentName ]

\* the part of create_company after the existence check: create, then report
CreateNew(self, company_data, company_name, gw, store, seed, calls) ==
    LET c == mcp_create_company(self, company_data, gw, store, seed)
    IN [ self |-> c.self, store |-> c.store,
         calls |-> Append(calls, c.call),
         result |-> IF c.call.result # None
                      THEN Created(company_name, c.call.result)
                      ELSE CreateFailed ]

\* HubSpotComposioAgent.create_company leaving the existence check to the
\* adapter: it creates without searching
agent_create_company_unchecked(self, company_data, check_existing, gw_search, gw_create, store, seed) ==
    LET company_name == Get(company_data, "name", NoneStr)
    IN IF company_name = NoneStr \/ company_name = ""
         THEN [ self |-> self, store |-> store, calls |-> << >>,
                result |-> NameRequired ]
       ELSE CreateNew(self, company_data, company_name, gw_create, store, seed, << >>)

\* HubSpotComposioAgent.create_company; gw_search and gw_create are the outcomes
\* of the two gateway calls it can make
agent_create_company(self, company_data, check_existing, gw_search, gw_create, store, seed) ==
    LET company_name == Get(company_data, "name", NoneStr)
    IN IF company_name = NoneStr \/ company_name = ""
         THEN [ self |-> self, store |-> store, calls |-> << >>,
                result |-> NameRequired ]
       ELSE IF check_existing
         THEN LET s == mcp_search_company(self, company_name, gw_search, store)
              IN IF s.call.result # None
                   THEN [ self |-> s.self, store |-> store, calls |-> << s.call >>,
                          result |-> AlreadyExists(company_name, s.call.result) ]
                   ELSE CreateNew(s.self, company_data, company_name, gw_create,
                                  store, seed, << s.call >>)
       ELSE CreateNew(self, company_data, company_name, gw_create, store, seed, << >>)

\* x or "" for an Optional[str]
OrEmpty(x) == IF x = NoneStr THEN "" ELSE x

\* ToolCompanyData leaving out the fields that were not given
ToolCompanyDataAsGiven(name, domain, industry) ==
    LET given == { k \in {"domain", "industry"} :
                     (IF k = "domain" THEN domain ELSE industry) # NoneStr }
    IN [ k \in {"name"} \cup given |->
           IF k = "name" THEN name ELSE IF k = "domain" THEN domain ELSE industry ]

\* the company_data create_hubspot_company_tool builds from its arguments
ToolCompanyData(name, domain, industry) ==
    [ name |-> name, domain |-> OrEmpty(domain), industry |-> OrEmpty(industry),
      description |-> "", city |-> "", state |-> "", country |-> "" ]

-----------------------------------------------------------------------------
(* Inputs of the agent and the agent as a state machine: a process constructs *)
(* the agent, serves requests, and may be restarted                          *)

\* most processes started one after the other
MaxRuns == 2

AgentCompanyDatas ==
    { EmptyDict,
      [name |-> ""],
      [name |-> "Acme Corp"],
      [name |-> " Notion ", domain |-> "notion.so"] }

\* the arguments of the tool: a domain given or left out, a fixture name
ToolRequests ==
    { [ name |-> "Acme Corp", domain |-> NoneStr, industry |-> NoneStr ],
      [ name |-> "Acme Corp", domain |-> "acme.com", industry |-> NoneStr ],
      [ name |-> "Stripe", domain |-> NoneStr, industry |-> NoneStr ] }

InitAgent ==
    /\ fn = "agent"
    /\ pc = "new"
    /\ NoGmail
    /\ mcp = None /\ notion = None /\ built = None
    /\ crm_store \in InitialStores
    /\ hash_seed \in 0..MaxSeed
    /\ run = 1
    /\ last = None /\ seen = None /\ first_id = None /\ tasks = None

\* the mock creations among the adapter calls of an operation, each as what the
\* history remembers of it
MockCreations(calls) ==
    { [ run |-> run, name |-> calls[i].result.name, id |-> calls[i].result.id ] :
        i \in { j \in 1..Len(calls) :
                  calls[j].op = "create_company" /\ calls[j].source = "mock" } }

\* the history remembers the first mock creation
Remember(calls) ==
    IF first_id = None /\ MockCreations(calls) # {}
      THEN first_id' \in MockCreations(calls)
      ELSE first_id' = first_id

\* the outcomes the gateway can have for an action of an adapter: it is not
\* called in mock mode, nor for an action the toolset lacks
Outcomes(self, action) ==
    IF self.use_mock \/ ~HasAction(self, action) THEN { "ok" } ELSE GatewayOutcomes

\* the outcomes the gateway can have for the search of create_company: the
\* search is made only for a named company and when check_existing is set
SearchOutcomes(self, company_data, check_existing) ==
    IF check_existing /\ Get(company_data, "name", "") # ""
      THEN Outcomes(self, SearchCompaniesAction)
      ELSE { "ok" }

\* the outcomes the gateway can have for the creation of create_company: no
\* creation is attempted for a company without a name
CreateOutcomes(self, company_data) ==
    IF Get(company_data, "name", "") # ""
      THEN Outcomes(self, CreateCompanyAction)
      ELSE { "ok" }

\* what the first use of get_hubspot_agent() finds: the USE_MOCK_MCP setting and
\* what the toolset initialisation does; nothing to choose once the agent exists
FirstUse ==
    IF pc = "new"
      THEN { [ env_mock |-> e, init |-> i ] :
               e \in BOOLEAN, i \in InitOutcomes(HubSpotActions) }
      ELSE { [ env_mock |-> FALSE, init |-> [raises |-> FALSE, tools |-> {}] ] }

\* HubSpotComposioAgent(use_mock)
ConstructAgent ==
    /\ fn = "agent" /\ pc = "new"
    /\ \E use_mock \in BOOLEAN, env_mock \in BOOLEAN, init \in InitOutcomes(HubSpotActions) :
         LET r == HubSpotMCPInit(use_mock, env_mock, init)
         IN /\ mcp' = r.self
            /\ last' = Operation("agent", "__init__", << use_mock, env_mock >>,
                                 None, << >>, r.raised, None)
    /\ pc' = "built"
    /\ UNCHANGED <<fn, gmailVars, tasks, notion, built, crm_store, hash_seed, run, seen,
                   first_id>>

\* await agent.search_company(company_name)
AgentSearchCompany ==
    /\ fn = "agent" /\ pc = "built"
    /\ \E company_name \in CompanyNames, gw \in Outcomes(mcp, SearchCompaniesAction) :
         LET r == agent_search_company(mcp, company_name, gw, crm_store)
         IN /\ mcp' = r.self
            /\ last' = Operation("agent", "search_company", << company_name >>, mcp,
                                 r.calls, FALSE, r.result)
    /\ UNCHANGED <<fn, pc, gmailVars, tasks, notion, built, crm_store, hash_seed, run, seen,
                   first_id>>

\* await agent.create_company(company_data, check_existing)
AgentCreateCompany ==
    /\ fn = "agent" /\ pc = "built"
    /\ \E company_data \in AgentCompanyDatas, check_existing \in BOOLEAN :
       \E gw_search \in SearchOutcomes(mcp, company_data, check_existing),
          gw_create \in CreateOutcomes(mcp, company_data) :
         LET r == agent_create_company(mcp, company_data, check_existing, gw_search,
                                       gw_create, crm_store, hash_seed)
         IN /\ Len(r.store.companies) <= MaxStore
            /\ mcp' = r.self
            /\ crm_store' = r.store
            /\ last' = Operation("agent", "create_company",
                                 << company_data, check_existing >>, mcp,
                                 r.calls, FALSE, r.result)
            /\ Remember(r.calls)
    /\ UNCHANGED <<fn, pc, gmailVars, tasks, notion, built, hash_seed, run, seen>>

\* await create_hubspot_company_tool(name, domain, industry): the agent is the
\* one of get_hubspot_agent(), constructed with Config.USE_MOCK_MCP on first use
ToolCreateCompany ==
    /\ fn = "agent"
    /\ \E req \in ToolRequests, new \in FirstUse :
         LET name == req.name
             domain == req.domain
             industry == req.industry
             agent == IF pc = "new"
                        THEN HubSpotMCPInit(new.env_mock, new.env_mock, new.init).self
                        ELSE mcp
         IN \E gw_search \in Outcomes(agent, SearchCompaniesAction),
               gw_create \in Outcomes(agent, CreateCompanyAction) :
         LET r == agent_create_company(agent, ToolCompanyData(name, domain, industry),
                                       TRUE, gw_search, gw_create, crm_store, hash_seed)
         IN /\ Len(r.store.companies) <= MaxStore
            /\ mcp' = r.self
            /\ crm_store' = r.store
            /\ last' = Operation("tool", "create_company", << name, domain, industry >>,
                                 agent, r.calls, FALSE, r.result)
            /\ Remember(r.calls)
    /\ pc' = "built"
    /\ UNCHANGED <<fn, gmailVars, tasks, notion, built, hash_seed, run, seen>>

\* the process ends and a new one starts: a new seed, no agent yet; the live
\* account keeps its companies
Restart ==
    /\ fn = "agent" /\ pc = "built"
    /\ run < MaxRuns
    /\ run' = run + 1
    /\ hash_seed' \in 0..MaxSeed
    /\ mcp' = None
    /\ last' = None
    /\ pc' = "new"
    /\ UNCHANGED <<fn, gmailVars, tasks, notion, built, crm_store, seen, first_id>>

NextAgent ==
    \/ ConstructAgent \/ AgentSearchCompany \/ AgentCreateCompany
    \/ ToolCreateCompany \/ Restart

SpecAgent == InitAgent /\ [][NextAgent]_vars

-----------------------------------------------------------------------------
(* Properties of the agent *)

\* the last operation was a call of the agent's method, or of the tool over it
AgentDid(op) == fn = "agent" /\ last # None /\ last.op = op

\* C16: a search whose live call raised is reported as a failure: the adapter
\* does not return None for it and the agent does not return success=true,
\* found=false, the results of a search that found no match.
C16_FailedSearchIsReported ==
    (AgentDid("search_company") /\ last.calls[1].raised) =>
       /\ last.calls[1].result # None
       /\ ~(last.result.success /\ ~last.result.found)

\* the name a company_data carries, "" when it has none
NameOf(company_data) ==
    IF "name" \in DOMAIN company_data THEN company_data.name ELSE ""

\* the names of the mock fixtures and their ids
FixtureIds == [ Stripe |-> "mock-stripe-001", Notion |-> "mock-notion-001" ]

\* the name, surrounding blanks apart, is the name of a mock fixture
IsFixtureName(name) == Strip(name) \in DOMAIN FixtureIds

\* the last operation was agent.create_company(company_data, check_existing=True)
\* on a mock adapter, with a name
MockCreateChecked ==
    /\ AgentDid("create_company")
    /\ last.entry = "agent"
    /\ last.before.use_mock
    /\ last.args[2]
    /\ NameOf(last.args[1]) # ""

\* the record holds every field of the company_data it was created from
Carries(record, company_data) ==
    \A k \in DOMAIN company_data : k \in DOMAIN record /\ record[k] = company_data[k]

\* C18: on a mock adapter, create_company with check_existing=True returns,
\* for a name that is not the name of a fixture, success=true, created=true,
\* exists=false and the record the adapter created for the company_data; for
\* the name of a fixture (Stripe, Notion, surrounding blanks apart) it returns
\* success=true, created=false, exists=true and the fixture's record.
C18_MockCreateChecked ==
    MockCreateChecked =>
      LET company_data == last.args[1]
          res == last.result
      IN /\ res.success
         /\ IF IsFixtureName(company_data.name)
              THEN /\ ~res.created /\ res.exists
                   /\ res.company.name = Strip(company_data.name)
                   /\ res.company.id = FixtureIds[Strip(company_data.name)]
                   /\ Len(last.calls) = 1
              ELSE /\ res.created /\ ~res.exists
                   /\ res.company = last.calls[2].result
                   /\ last.calls[2].op = "create_company"
                   /\ res.company.name = company_data.name
                   /\ StartsWith(res.company.id, "mock-")
                   /\ Carries(res.company, company_data)

\* "Acme Corp", not a fixture, is created with an id derived from its name
C18_Witness ==
    /\ MockCreateChecked
    /\ last.args[1] = [name |-> "Acme Corp"]
    /\ last.result.created
    /\ last.result.company.name = "Acme Corp"
    /\ StartsWith(last.result.company.id, "mock-acme-corp-")

\* the mock creations of the last operation
LastMockCreations ==
    { last.calls[i] : i \in { j \in 1..Len(last.calls) :
                                 /\ last.calls[j].op = "create_company"
                                 /\ last.calls[j].source = "mock" } }

\* C19: a company created in mock mode gets the id that a company of the same
\* name got in an earlier process.
C19_MockIdSameAcrossRuns ==
    (AgentDid("create_company") /\ first_id # None /\ first_id.run # run) =>
       \A c \in LastMockCreations :
          c.result.name = first_id.name => c.result.id = first_id.id


\* the last operation asked a mock adapter to create a company, giving a name
\* and no domain: the tool without a domain argument, or the agent's
\* create_company with a company_data that has no domain
MockCreateWithoutDomain ==
    /\ AgentDid("create_company")
    /\ last.before.use_mock
    /\ \/ last.entry = "tool" /\ last.args[2] = NoneStr
       \/ /\ last.entry = "agent"
          /\ NameOf(last.args[1]) # ""
          /\ "domain" \notin DOMAIN last.args[1]

\* C20 as claimed: creating a company with a name and no domain on a mock
\* adapter succeeds, and the company record returned has a domain field.
C20_RecordHasDomainField ==
    MockCreateWithoutDomain =>
       /\ last.result.success
       /\ "domain" \in DOMAIN last.result.company

\* the name given to the last create
CreatedName == IF last.entry = "tool" THEN last.args[1] ELSE last.args[1].name

\* C20: creating a company with a name and no domain on a mock adapter never
\* fails validation: it succeeds, and for a name that is not a fixture's the
\* company is created.  Through create_hubspot_company_tool the record has a
\* domain field, empty for a created company; through the agent's
\* create_company with a company_data without domain, the created record has
\* no domain field.
C20_NoDomainIsAccepted ==
    MockCreateWithoutDomain =>
       /\ last.result.success
       /\ ~IsFixtureName(CreatedName) =>
             /\ last.result.created
             /\ last.result.company.name = CreatedName
       /\ last.entry = "tool" =>
             /\ "domain" \in DOMAIN last.result.company
             /\ last.result.created => last.result.company.domain = ""
       /\ (last.entry = "agent" /\ last.result.created) =>
             "domain" \notin DOMAIN last.result.company

\* the tool creates "Acme Corp" without a domain: the record has domain ""
C20_Witness ==
    /\ MockCreateWithoutDomain
    /\ last.entry = "tool"
    /\ last.args[1] = "Acme Corp"
    /\ last.result.created
    /\ last.result.company.domain = ""

-----------------------------------------------------------------------------
(* HubSpotComposioAgent: create_contact, add_note, create_company_with_contacts *)
(* and execute                                                                *)

\* an exception: its type name and str(error)
Exception(type, message) == [ type |-> type, message |-> message ]

\* the results of create_contact
EmailRequired ==
    [ success |-> FALSE, error |-> "Contact email is required",
      agent |-> HubSpotAgentName ]

ContactCreated(email, contact) ==
    [ success |-> TRUE, created |-> TRUE, contact |-> contact,
      message |-> "Successfully created contact '" \o email \o "' in HubSpot",
      agent |-> HubSpotAgentName ]

ContactCreateFailed ==
    [ success |-> FALSE, error |-> "Failed to create contact in HubSpot",
      agent |-> HubSpotAgentName ]

\* if company_id: contact_data["company_id"] = company_id  (the caller's dict)
WithCompanyId(contact_data, company_id) ==
    IF company_id # NoneStr /\ company_id # ""
      THEN Merge(contact_data, [ company_id |-> company_id ])
      ELSE contact_data

\* HubSpotComposioAgent.create_contact calling the adapter before it looks at
\* the email
agent_create_contact_unvalidated(self, contact_data, company_id, gw, seed) ==
    LET email == Get(contact_data, "email", NoneStr)
        data == WithCompanyId(contact_data, company_id)
        c == mcp_create_contact(self, data, gw, seed)
    IN [ self |-> c.self, calls |-> << c.call >>, contact_data |-> data,
         result |-> IF email = NoneStr \/ email = "" THEN EmailRequired
                    ELSE IF c.call.result # None
                      THEN ContactCreated(email, c.call.result)
                      ELSE ContactCreateFailed ]

\* HubSpotComposioAgent.create_contact; contact_data is the caller's dict after
\* the call
agent_create_contact(self, contact_data, company_id, gw, seed) ==
    LET email == Get(contact_data, "email", NoneStr)
    IN IF email = NoneStr \/ email = ""
         THEN [ self |-> self, calls |-> << >>, contact_data |-> contact_data,
                result |-> EmailRequired ]
       ELSE LET data == WithCompanyId(contact_data, company_id)
                c == mcp_create_contact(self, data, gw, seed)
            IN [ self |-> c.self, calls |-> << c.call >>, contact_data |-> data,
                 result |-> IF c.call.result # None
                              THEN ContactCreated(email, c.call.result)
                              ELSE ContactCreateFailed ]

\* the results of add_note
NoteAdded(record_type) ==
    [ success |-> TRUE, message |-> "Successfully added note to " \o record_type,
      agent |-> HubSpotAgentName ]

NoteFailed(record_type) ==
    [ success |-> FALSE, error |-> "Failed to add note to " \o record_type,
      agent |-> HubSpotAgentName ]

\* HubSpotComposioAgent.add_note
agent_add_note(self, record_id, note_text, record_type, gw, store) ==
    LET n == mcp_add_note(self, << record_id, note_text, record_type >>, gw, store)
    IN [ self |-> n.self, store |-> n.store, calls |-> << n.call >>,
         result |-> IF n.call.result THEN NoteAdded(record_type)
                    ELSE NoteFailed(record_type) ]

\* the for loop of create_company_with_contacts; gws are the outcomes of the
\* gateway for the contacts, one each
RECURSIVE CreateContacts(_, _, _, _, _, _)
CreateContacts(self, contacts, company_id, gws, seed, acc) ==
    IF contacts = << >> THEN acc
    ELSE LET r == agent_create_contact(self, Head(contacts), company_id, Head(gws), seed)
         IN CreateContacts(r.self, Tail(contacts), company_id, Tail(gws), seed,
               [ calls |-> acc.calls \o r.calls,
                 created_contacts |->
                    IF r.result.success
                      THEN Append(acc.created_contacts, r.result.contact)
                      ELSE acc.created_contacts,
                 failed_contacts |->
                    IF r.result.success
                      THEN acc.failed_contacts
                      ELSE Append(acc.failed_contacts,
                                  [ contact |-> r.contact_data,
                                    error |-> r.result.error ]) ])

\* the result of create_company_with_contacts after the loop
WithContacts(company, created_contacts, failed_contacts) ==
    [ success |-> TRUE, company |-> company,
      contacts_created |-> Len(created_contacts),
      contacts_failed |-> Len(failed_contacts),
      created_contacts |-> created_contacts,
      failed_contacts |-> failed_contacts,
      message |-> "Created company and " \o ToString(Len(created_contacts))
                  \o " contacts in HubSpot",
      agent |-> HubSpotAgentName ]

\* create_company_with_contacts going on to the contacts whatever the company
\* step returned
agent_create_company_with_contacts_unchecked(self, company_data, contacts, gw_search, gw_create, gws, store, seed) ==
    LET c == agent_create_company(self, company_data, TRUE, gw_search, gw_create,
                                  store, seed)
        company_id == Get(Get(c.result, "company", EmptyDict), "id", NoneStr)
        done == CreateContacts(c.self, contacts, company_id, gws, seed,
                               [ calls |-> c.calls, created_contacts |-> << >>,
                                 failed_contacts |-> << >> ])
    IN [ self |-> c.self, store |-> c.store, calls |-> done.calls,
         result |-> IF ~c.result.success THEN c.result
                    ELSE WithContacts(c.result.company, done.created_contacts,
                                      done.failed_contacts) ]

\* HubSpotComposioAgent.create_company_with_contacts
agent_create_company_with_contacts(self, company_data, contacts, gw_search, gw_create, gws, store, seed) ==
    LET c == agent_create_company(self, company_data, TRUE, gw_search, gw_create,
                                  store, seed)
    IN IF ~c.result.success
         THEN [ self |-> c.self, store |-> c.store, calls |-> c.calls,
                result |-> c.result ]
       ELSE LET company_id == Get(Get(c.result, "company", EmptyDict), "id", NoneStr)
                done == CreateContacts(c.self, contacts, company_id, gws, seed,
                                       [ calls |-> c.calls, created_contacts |-> << >>,
                                         failed_contacts |-> << >> ])
            IN [ self |-> c.self, store |-> c.store, calls |-> done.calls,
                 result |-> WithContacts(c.result.company, done.created_contacts,
                                         done.failed_contacts) ]

\* the required parameters of the methods execute dispatches to
Required(action) ==
    CASE action = "search_company" -> { "company_name" }
      [] action = "create_company" -> { "company_data" }
      [] action = "create_contact" -> { "contact_data" }
      [] action = "add_note" -> { "record_id", "note_text" }

\* their parameters with a default value
Defaulted(action) ==
    CASE action = "search_company" -> { }
      [] action = "create_company" -> { "check_existing" }
      [] action = "create_contact" -> { "company_id" }
      [] action = "add_note" -> { "record_type" }

\* the TypeError of method(**kwargs) when kwargs has a key that is no parameter,
\* or else lacks one required parameter; None when the call binds
BindError(action, kwargs) ==
    LET unexpected == DOMAIN kwargs \ (Required(action) \cup Defaulted(action))
        missing == Required(action) \ DOMAIN kwargs
        method == "HubSpotComposioAgent." \o action \o "()"
    IN IF unexpected # {}
         THEN Exception("TypeError",
                        method \o " got an unexpected keyword argument '"
                        \o (CHOOSE k \in unexpected : TRUE) \o "'")
       ELSE IF missing # {}
         THEN Exception("TypeError",
                        method \o " missing 1 required positional argument: '"
                        \o (CHOOSE k \in missing : TRUE) \o "'")
       ELSE None

\* the result of execute for an action it does not know
UnknownAction(action) ==
    [ success |-> FALSE, error |-> "Unknown action: " \o action,
      agent |-> HubSpotAgentName ]

\* the method execute dispatches to, called with **kwargs; gws are the outcomes
\* of the gateway for the calls the method can make
Dispatch(self, action, kwargs, gws, store, seed) ==
    CASE action = "search_company" ->
           LET r == agent_search_company(self, kwargs.company_name, gws.search, store)
           IN [ self |-> r.self, store |-> store, calls |-> r.calls,
                result |-> r.result ]
      [] action = "create_company" ->
           LET r == agent_create_company(self, kwargs.company_data,
                                         Get(kwargs, "check_existing", TRUE),
                                         gws.search, gws.create, store, seed)
           IN [ self |-> r.self, store |-> r.store, calls |-> r.calls,
                result |-> r.result ]
      [] action = "create_contact" ->
           LET r == agent_create_contact(self, kwargs.contact_data,
                                         Get(kwargs, "company_id", NoneStr),
                                         gws.contact, seed)
           IN [ self |-> r.self, store |-> store, calls |-> r.calls,
                result |-> r.result ]
      [] action = "add_note" ->
           LET r == agent_add_note(self, kwargs.record_id, kwargs.note_text,
                                   Get(kwargs, "record_type", "company"),
                                   gws.note, store)
           IN [ self |-> r.self, store |-> r.store, calls |-> r.calls,
                result |-> r.result ]

\* the actions execute knows
ExecuteActions == { "search_company", "create_company", "create_contact", "add_note" }

\* execute raising ValueError for an action it does not know
agent_execute_raising(self, action, kwargs, gws, store, seed) ==
    LET error == IF action \in ExecuteActions
                   THEN BindError(action, kwargs)
                   ELSE Exception("ValueError", "Unknown action: " \o action)
    IN IF error # None
         THEN [ self |-> self, store |-> store, calls |-> << >>, error |-> error,
                result |-> handle_error(HubSpotAgentName, error.message, error.type) ]
       ELSE Merge(Dispatch(self, action, kwargs, gws, store, seed), [ error |-> None ])

\* HubSpotComposioAgent.execute; error is the exception its except clause caught
agent_execute(self, action, kwargs, gws, store, seed) ==
    IF action \notin ExecuteActions
      THEN [ self |-> self, store |-> store, calls |-> << >>, error |-> None,
             result |-> UnknownAction(action) ]
    ELSE LET error == BindError(action, kwargs)
         IN IF error # None
              THEN [ self |-> self, store |-> store, calls |-> << >>, error |-> error,
                     result |-> handle_error(HubSpotAgentName, error.message,
                                             error.type) ]
            ELSE Merge(Dispatch(self, action, kwargs, gws, store, seed),
                       [ error |-> None ])

-----------------------------------------------------------------------------
(* The agent's operations as a state machine: one constructed agent serves   *)
(* requests one after the other                                               *)

\* most contacts given to create_company_with_contacts
MaxContacts == 2

CrmCompanyDatas ==
    { EmptyDict,
      [name |-> "Acme Corp"],
      [name |-> "Stripe", domain |-> "stripe.com"] }

CrmContactDatas ==
    { [email |-> "ada@acme.com"],
      [firstname |-> "Ada"],
      [email |-> "bob@acme.com", firstname |-> "Bob"] }

CompanyIds == { NoneStr, "hs-1" }

\* lists of different contacts
ContactLists ==
    { l \in UNION { [ 1..n -> CrmContactDatas ] : n \in 0..MaxContacts } :
        \A i, j \in 1..Len(l) : l[i] = l[j] => i = j }

ExecuteRequests ==
    { [ action |-> "search_company", kwargs |-> [company_name |-> "Stripe"] ],
      [ action |-> "search_company", kwargs |-> EmptyDict ],
      [ action |-> "create_company",
        kwargs |-> [company_data |-> [name |-> "Acme Corp"]] ],
      [ action |-> "create_company",
        kwargs |-> [company_data |-> EmptyDict, check_existing |-> FALSE] ],
      [ action |-> "create_contact",
        kwargs |-> [contact_data |-> [email |-> "ada@acme.com"]] ],
      [ action |-> "add_note",
        kwargs |-> [record_id |-> "1", note_text |-> "met at expo"] ],
      [ action |-> "add_note",
        kwargs |-> [record_id |-> "1", note_text |-> "met at expo",
                    priority |-> "high"] ],
      [ action |-> "delete_company", kwargs |-> [company_id |-> "1"] ],
      [ action |-> "", kwargs |-> EmptyDict ] }

\* the outcomes of the gateway for the calls an action of execute can make
ExecuteOutcomes(self, action) ==
    [ search : IF action \in { "search_company", "create_company" }
                 THEN Outcomes(self, SearchCompaniesAction) ELSE { "ok" },
      create : IF action = "create_company"
                 THEN Outcomes(self, CreateCompanyAction) ELSE { "ok" },
      contact : IF action = "create_contact"
                  THEN Outcomes(self, CreateContactAction) ELSE { "ok" },
      note : IF action = "add_note"
               THEN Outcomes(self, CreateNoteAction) ELSE { "ok" } ]

\* the outcomes of the gateway for the contacts of a list, one each: it is
\* called for a contact that has an email
ContactOutcomes(self, contacts) ==
    { gws \in [ 1..Len(contacts) -> GatewayOutcomes ] :
        \A i \in 1..Len(contacts) :
           gws[i] \in IF Get(contacts[i], "email", "") # ""
                        THEN Outcomes(self, CreateContactAction)
                        ELSE { "ok" } }

\* what is recorded of an operation of the agent: the exception its except
\* clause caught, None when there was none
CrmOperation(op, args, before, calls, error, res) ==
    Merge(Operation("agent", op, args, before, calls, FALSE, res), [ error |-> error ])

\* the history of create_company with check_existing: the first company the
\* mock adapter created for it, and whether a later call gave that name again
Recall(first, company_data, calls) ==
    IF first = None
      THEN IF MockCreations(calls) = {} THEN None
           ELSE Merge(CHOOSE c \in MockCreations(calls) : TRUE, [ again |-> FALSE ])
    ELSE IF Get(company_data, "name", "") = first.name
      THEN [ first EXCEPT !.again = TRUE ]
    ELSE first

InitCrm ==
    /\ fn = "crm"
    /\ pc = "built"
    /\ NoGmail
    /\ mcp \in { HubSpotMCPInit(use_mock, FALSE, init).self :
                   use_mock \in BOOLEAN, init \in InitOutcomes(HubSpotActions) }
    /\ notion = None /\ built = None
    /\ crm_store \in InitialStores
    /\ hash_seed = 0
    /\ run = 1
    /\ last = None /\ seen = None /\ first_id = None /\ tasks = None

\* await agent.execute(action, **kwargs)
CrmExecute ==
    /\ fn = "crm"
    /\ \E req \in ExecuteRequests :
       \E gws \in ExecuteOutcomes(mcp, req.action) :
         LET r == agent_execute(mcp, req.action, req.kwargs, gws, crm_store, hash_seed)
         IN /\ Len(r.store.companies) <= MaxStore
            /\ mcp' = r.self
            /\ crm_store' = r.store
            /\ last' = CrmOperation("execute", << req.action, req.kwargs >>, mcp,
                                    r.calls, r.error, r.result)
    /\ UNCHANGED <<fn, pc, gmailVars, tasks, notion, built, hash_seed, run, seen,
                   first_id>>

\* await agent.create_company(company_data, check_existing); the history
\* remembers the first company created after an existence check
CrmCreateCompany ==
    /\ fn = "crm"
    /\ \E company_data \in CrmCompanyDatas, check_existing \in BOOLEAN :
       \E gw_search \in SearchOutcomes(mcp, company_data, check_existing),
          gw_create \in CreateOutcomes(mcp, company_data) :
         LET r == agent_create_company(mcp, company_data, check_existing, gw_search,
                                       gw_create, crm_store, hash_seed)
         IN /\ Len(r.store.companies) <= MaxStore
            /\ mcp' = r.self
            /\ crm_store' = r.store
            /\ last' = CrmOperation("create_company",
                                    << company_data, check_existing >>, mcp,
                                    r.calls, None, r.result)
            /\ first_id' = IF check_existing
                              THEN Recall(first_id, company_data, r.calls)
                              ELSE first_id
    /\ UNCHANGED <<fn, pc, gmailVars, tasks, notion, built, hash_seed, run, seen>>

\* await agent.create_contact(contact_data, company_id)
CrmCreateContact ==
    /\ fn = "crm"
    /\ \E contact_data \in CrmContactDatas, company_id \in CompanyIds :
       \E gw \in ContactOutcomes(mcp, << contact_data >>) :
         LET r == agent_create_contact(mcp, contact_data, company_id, gw[1], hash_seed)
         IN /\ mcp' = r.self
            /\ last' = CrmOperation("create_contact", << contact_data, company_id >>,
                                    mcp, r.calls, None, r.result)
    /\ UNCHANGED <<fn, pc, gmailVars, tasks, notion, built, crm_store, hash_seed, run,
                   seen, first_id>>

\* await agent.add_note(record_id, note_text, record_type)
CrmAddNote ==
    /\ fn = "crm"
    /\ \E note \in Notes, gw \in Outcomes(mcp, CreateNoteAction) :
         LET r == agent_add_note(mcp, note[1], note[2], note[3], gw, crm_store)
         IN /\ mcp' = r.self
            /\ crm_store' = r.store
            /\ last' = CrmOperation("add_note", note, mcp, r.calls, None, r.result)
    /\ UNCHANGED <<fn, pc, gmailVars, tasks, notion, built, hash_seed, run, seen,
                   first_id>>

\* the agent serving create_company_with_contacts
InitChain ==
    /\ fn = "chain"
    /\ pc = "built"
    /\ NoGmail
    /\ mcp \in { HubSpotMCPInit(use_mock, FALSE, init).self :
                   use_mock \in BOOLEAN, init \in InitOutcomes(HubSpotActions) }
    /\ notion = None /\ built = None
    /\ crm_store \in InitialStores
    /\ hash_seed = 0
    /\ run = 1
    /\ last = None /\ seen = None /\ first_id = None /\ tasks = None

\* await agent.create_company_with_contacts(company_data, contacts)
CrmCreateCompanyWithContacts ==
    /\ fn = "chain"
    /\ \E company_data \in CrmCompanyDatas, contacts \in ContactLists :
       \E gw_search \in SearchOutcomes(mcp, company_data, TRUE),
          gw_create \in CreateOutcomes(mcp, company_data),
          gws \in ContactOutcomes(mcp, contacts) :
         LET r == agent_create_company_with_contacts(mcp, company_data, contacts,
                     gw_search, gw_create, gws, crm_store, hash_seed)
         IN /\ Len(r.store.companies) <= MaxStore
            /\ mcp' = r.self
            /\ crm_store' = r.store
            /\ last' = CrmOperation("create_company_with_contacts",
                                    << company_data, contacts >>, mcp,
                                    r.calls, None, r.result)
    /\ UNCHANGED <<fn, pc, gmailVars, tasks, notion, built, hash_seed, run, seen,
                   first_id>>

NextCrm == CrmExecute \/ CrmCreateCompany \/ CrmCreateContact \/ CrmAddNote

SpecCrm == InitCrm /\ [][NextCrm]_vars

NextChain == CrmCreateCompanyWithContacts

SpecChain == InitChain /\ [][NextChain]_vars

-----------------------------------------------------------------------------
(* Properties of the agent's operations *)

\* the last operation was the agent's method op
CrmDid(op) == fn \in { "crm", "chain" } /\ last # None /\ last.op = op

\* a required field is missing from the argument of the last operation
MissingRequired ==
    \/ CrmDid("create_company") /\ NameOf(last.args[1]) = ""
    \/ CrmDid("create_contact") /\ Get(last.args[1], "email", "") = ""

\* C21: create_company with a company_data that has no name, and
\* create_contact with a contact_data that has no email, return a failure
\* result and make no adapter call, neither search nor create; the adapter and
\* the result say nothing was attempted.
C21_MissingFieldNoCall ==
    MissingRequired =>
       /\ ~last.result.success
       /\ "error" \in DOMAIN last.result
       /\ last.calls = << >>
       /\ mcp = last.before

\* create_contact was given a contact without email and refused it
C21_Witness ==
    /\ CrmDid("create_contact")
    /\ last.args[1] = [firstname |-> "Ada"]
    /\ last.result = EmailRequired
    /\ last.calls = << >>

\* the record types a note can be attached to
RecordTypes == { "company", "contact" }

\* C22: add_note with a record_type other than company and contact fails, and
\* no note with such a record_type is attached to the account, in mock and in
\* live mode.
C22_RecordTypeValidated ==
    /\ (CrmDid("add_note") /\ last.args[3] \notin RecordTypes) => ~last.result.success
    /\ fn = "crm" => \A note \in crm_store.notes : note[3] \in RecordTypes

\* C23: execute with an action outside search_company, create_company,
\* create_contact and add_note raises nothing, inside or out: it returns
\* success=false with an error that names the action, and makes no adapter call.
C23_UnknownActionReported ==
    (CrmDid("execute") /\ last.args[1] \notin ExecuteActions) =>
       /\ last.error = None
       /\ ~last.raised
       /\ ~last.result.success
       /\ last.result.error = "Unknown action: " \o last.args[1]
       /\ last.result.agent = HubSpotAgentName
       /\ last.calls = << >>

\* execute was asked for "delete_company" and said it does not know it
C23_Witness ==
    /\ CrmDid("execute")
    /\ last.args[1] = "delete_company"
    /\ Contains(last.result.error, "delete_company")
    /\ ~last.result.success

\* C26: create_company with check_existing=True for a named company first
\* searches the adapter by that name; when the search finds a record the agent
\* returns it with created=false, exists=true and makes no create call.  With
\* check_existing=False the agent makes no search: its only call is the
\* adapter's create, which checks nothing and creates the company whenever
\* the mock or the gateway answers, also under the name of a fixture.
C26_AgentDeduplicates ==
    (CrmDid("create_company") /\ NameOf(last.args[1]) # "") =>
       IF last.args[2]
         THEN /\ last.calls[1].op = "search_company"
              /\ last.calls[1].arg = last.args[1].name
              /\ last.calls[1].result # None =>
                    /\ Len(last.calls) = 1
                    /\ last.result.success
                    /\ ~last.result.created /\ last.result.exists
                    /\ last.result.company = last.calls[1].result
              /\ last.calls[1].result = None =>
                    /\ Len(last.calls) = 2
                    /\ last.calls[2].op = "create_company"
         ELSE /\ Len(last.calls) = 1
              /\ last.calls[1].op = "create_company"
              /\ last.calls[1].arg = last.args[1]
              /\ (last.calls[1].source = "mock"
                  \/ (last.calls[1].source = "gateway" /\ ~last.calls[1].raised)) =>
                    /\ last.result.success /\ last.result.created
                    /\ last.result.company = last.calls[1].result

\* with check_existing=True the mock fixture "Stripe" is found and returned: one
\* call, the search
C26_Witness ==
    /\ CrmDid("create_company")
    /\ last.args[2]
    /\ NameOf(last.args[1]) = "Stripe"
    /\ last.before.use_mock
    /\ Len(last.calls) = 1
    /\ last.result.exists /\ ~last.result.created
    /\ last.result.company.id = "mock-stripe-001"

\* C27: on a mock adapter, a create_company with check_existing=True for a name
\* that an earlier create_company with check_existing=True of the same agent
\* created reports exists=true, created=false.
C27_SecondCreateFindsFirst ==
    ( /\ CrmDid("create_company")
      /\ last.args[2]
      /\ last.before.use_mock
      /\ first_id # None
      /\ first_id.again
      /\ NameOf(last.args[1]) = first_id.name ) =>
        /\ last.result.success
        /\ last.result.exists /\ ~last.result.created

\* the adapter calls of the last operation that are of the given operations
CallsOf(ops) == { i \in 1..Len(last.calls) : last.calls[i].op \in ops }

\* the contact has an email
HasEmail(contact_data) == Get(contact_data, "email", "") # ""

\* the arguments of the create_contact calls of the last operation, in order
ContactCallArgs ==
    LET first == IF CallsOf({ "create_contact" }) = {} THEN Len(last.calls) + 1
                 ELSE CHOOSE i \in CallsOf({ "create_contact" }) :
                        \A j \in CallsOf({ "create_contact" }) : i <= j
    IN [ k \in 1..(Len(last.calls) - first + 1) |-> last.calls[first + k - 1].arg ]

\* C28: in create_company_with_contacts every create_contact call comes after
\* the calls of the company step (search, then create); when the company step
\* fails there is no create_contact call; when it succeeds the create_contact
\* calls are, in list order, those for the contacts that have an email, each
\* with the id of the resolved company as company_id.
C28_CompanyBeforeContacts ==
    CrmDid("create_company_with_contacts") =>
       LET company_calls == CallsOf({ "search_company", "create_company" })
           contact_calls == CallsOf({ "create_contact" })
           with_email == SelectSeq(last.args[2], HasEmail)
       IN /\ \A i \in company_calls, j \in contact_calls : i < j
          /\ \A i \in company_calls : last.calls[i].op = "create_company" =>
                \A j \in company_calls : j <= i
          /\ ~last.result.success => contact_calls = {}
          /\ last.result.success =>
                /\ last.result.company # None
                /\ Len(ContactCallArgs) = Len(with_email)
                /\ \A k \in 1..Len(with_email) :
                      ContactCallArgs[k] =
                         Merge(with_email[k],
                               [ company_id |-> last.result.company.id ])

\* a company is created and then ada and bob, in that order, under its id
C28_Witness ==
    /\ CrmDid("create_company_with_contacts")
    /\ last.result.success
    /\ last.result.contacts_created = 2
    /\ Len(last.calls) = 4
    /\ last.calls[2].op = "create_company"
    /\ last.calls[3].arg.email = "ada@acme.com"
    /\ last.calls[4].arg.email = "bob@acme.com"
    /\ last.calls[3].arg.company_id = last.result.company.id

-----------------------------------------------------------------------------
(* call_hubspot_agent and call_orchestrator_agent: an LLM agent is run on    *)
(* the prompt and its final output is returned as it is                      *)

\* a piece of the final output of an LLM run: prose, or the text of one JSON
\* value
Prose(text) == [ kind |-> "prose", text |-> text ]
Json(value) == [ kind |-> "json", value |-> value ]

\* call_hubspot_agent: composio.tools.get, Agent(...), Runner.run, return
\* result.final_output; run is what these calls do: they raise, or the run ends
\* with a final output
call_hubspot_agent(prompt, run_outcome) ==
    IF run_outcome.raises
      THEN [ raised |-> TRUE, error |-> run_outcome.error, result |-> None ]
      ELSE [ raised |-> FALSE, error |-> None, result |-> run_outcome.final_output ]

\* call_orchestrator_agent: Agent(...), Runner.run, return result.final_output
call_orchestrator_agent(prompt, run_outcome) ==
    IF run_outcome.raises
      THEN [ raised |-> TRUE, error |-> run_outcome.error, result |-> None ]
      ELSE [ raised |-> FALSE, error |-> None, result |-> run_outcome.final_output ]

\* most pieces of a final output
MaxSegments == 2

Prompts == { "find Acme", "what can you do?", "" }

CompanyCard == [ role |-> "company", content |-> [name |-> "Acme", domain |-> "acme.com"] ]
EventCard == [ role |-> "event", content |-> [title |-> "Demo"] ]
NamelessCard == [ role |-> "company", content |-> [industry |-> "Software"] ]

Segments ==
    { Prose("Here is the company:"), Prose("Done."),
      Json(CompanyCard), Json(EventCard), Json(NamelessCard) }

\* the final outputs an LLM run can end with
FinalOutputs == UNION { [ 1..n -> Segments ] : n \in 1..MaxSegments }

\* what the calls of the agents SDK and of Composio can do
RunOutcomes ==
    { [ raises |-> TRUE, error |-> Exception("RuntimeError", "connection refused"),
        final_output |-> << >> ] }
    \cup { [ raises |-> FALSE, error |-> None, final_output |-> out ] :
             out \in FinalOutputs }

\* what is recorded of a call of an agent function
CallOperation(op, prompt, r) ==
    Merge(Operation("call", op, << prompt >>, None, << >>, r.raised, r.result),
          [ error |-> r.error ])

InitOrch ==
    /\ fn = "orch"
    /\ pc = "idle"
    /\ NoGmail
    /\ NoCrm

\* await call_hubspot_agent(prompt)
CallHubspotAgent ==
    /\ fn = "orch"
    /\ \E prompt \in Prompts, run_outcome \in RunOutcomes :
         last' = CallOperation("call_hubspot_agent", prompt,
                               call_hubspot_agent(prompt, run_outcome))
    /\ UNCHANGED <<fn, pc, gmailVars, tasks, mcp, notion, built, crm_store, hash_seed,
                   run, seen, first_id>>

\* await call_orchestrator_agent(prompt)
CallOrchestratorAgent ==
    /\ fn = "orch"
    /\ \E prompt \in Prompts, run_outcome \in RunOutcomes :
         last' = CallOperation("call_orchestrator_agent", prompt,
                               call_orchestrator_agent(prompt, run_outcome))
    /\ UNCHANGED <<fn, pc, gmailVars, tasks, mcp, notion, built, crm_store, hash_seed,
                   run, seen, first_id>>

NextOrch == CallHubspotAgent \/ CallOrchestratorAgent

SpecOrch == InitOrch /\ [][NextOrch]_vars

\* the entry points of the agents together: GmailAgent.draft_email, the
\* operations of HubSpotComposioAgent, the call_*_agent functions
InitEntry == InitDraft \/ InitCrm \/ InitOrch

NextEntry == DraftEmail \/ NextCrm \/ NextOrch

SpecEntry == InitEntry /\ [][NextEntry]_vars

-----------------------------------------------------------------------------
(* Properties of the entry points *)

\* an exception was raised while the last operation of an agent ran
ExceptionRaised ==
    \/ fn = "draft" /\ pc = "done" /\ response = None
    \/ fn \in { "crm", "orch" } /\ last # None /\ last.error # None

\* the exception reached the caller of the entry point
ReachedCaller == fn \in { "crm", "orch" } /\ last.raised

\* what the entry point returned
EntryResult == IF fn = "draft" THEN result ELSE last.result

\* C24: when an exception is raised while an operation of an agent runs
\* (draft_email, the operations of HubSpotComposioAgent, call_hubspot_agent and
\* call_orchestrator_agent), it does not reach the caller: the operation
\* returns the record {success: false, error, error_kind, agent}.
C24_UniformFailureRecord ==
    ExceptionRaised =>
       /\ ~ReachedCaller
       /\ DOMAIN EntryResult = { "success", "error", "error_kind", "agent" }
       /\ ~EntryResult.success

\* the role and the mandatory field of the cards
CardRoles == { "company", "event" }
MandatoryField(role) == IF role = "company" THEN "name" ELSE "title"

\* the JSON value is a card payload
IsCardPayload(value) ==
    /\ DOMAIN value = { "role", "content" }
    /\ value.role \in CardRoles
    /\ MandatoryField(value.role) \in DOMAIN value.content

\* the response is one card payload and nothing else
IsCard(out) == Len(out) = 1 /\ out[1].kind = "json" /\ IsCardPayload(out[1].value)

\* the response is prose and nothing else
IsPlainText(out) == \A i \in 1..Len(out) : out[i].kind = "prose"

\* C25: every response call_orchestrator_agent returns is one card payload
\* (role company or event, with the mandatory name or title) and nothing else,
\* or plain text and nothing else: none holds a card payload together with
\* prose.
C25_CardOrText ==
    (fn = "orch" /\ last # None /\ last.op = "call_orchestrator_agent" /\ ~last.raised) =>
       /\ IsCard(last.result) \/ IsPlainText(last.result)
       /\ ~ \E i, j \in 1..Len(last.result) :
              /\ last.result[i].kind = "json" /\ IsCardPayload(last.result[i].value)
              /\ last.result[j].kind = "prose"

-----------------------------------------------------------------------------
(* Concurrent requests: create_company coroutines of the one agent of        *)
(* get_hubspot_agent(), interleaved at their awaits of the gateway           *)

\* most create_company coroutines in flight
MaxTasks == 2

RaceNames == { "Acme Corp", "Stripe" }

\* a coroutine before its first await: company_data, no local set
NewTask(name) ==
    [ pc |-> "search", company_data |-> [name |-> name], existing |-> None,
      search_answered |-> FALSE, create_called |-> FALSE, result |-> None ]

InitRace ==
    /\ fn = "race"
    /\ pc = "built"
    /\ NoGmail
    /\ mcp \in { HubSpotMCPInit(FALSE, FALSE, init).self :
                   init \in { i \in InitOutcomes(HubSpotActions) : ~i.raises } }
    /\ notion = None /\ built = None
    /\ crm_store \in InitialStores
    /\ hash_seed = 0
    /\ run = 1
    /\ last = None /\ seen = None /\ first_id = None
    /\ tasks \in [ 1..MaxTasks -> { NewTask(name) : name \in RaceNames } ]

\* create_company(company_data, check_existing=True) up to the answer of
\* existing = await self.mcp.search_company(company_name)
RaceSearch(t) ==
    /\ fn = "race"
    /\ tasks[t].pc = "search"
    /\ \E gw \in Outcomes(mcp, SearchCompaniesAction) :
         LET s == mcp_search_company(mcp, tasks[t].company_data.name, gw, crm_store)
         IN tasks' = [ tasks EXCEPT ![t].pc = "create",
                                    ![t].existing = s.call.result,
                                    ![t].search_answered =
                                       s.call.source = "gateway" /\ ~s.call.raised ]
    /\ UNCHANGED <<fn, pc, gmailVars, mcp, notion, built, crm_store, hash_seed, run,
                   last, seen, first_id>>

\* the rest of create_company: if existing, return it; else
\* result = await self.mcp.create_company(company_data), and return
RaceCreate(t) ==
    /\ fn = "race"
    /\ tasks[t].pc = "create"
    /\ LET name == tasks[t].company_data.name
       IN IF tasks[t].existing # None
            THEN /\ tasks' = [ tasks EXCEPT ![t].pc = "done",
                                            ![t].result =
                                               AlreadyExists(name, tasks[t].existing) ]
                 /\ crm_store' = crm_store
            ELSE \E gw \in Outcomes(mcp, CreateCompanyAction) :
                   LET c == CreateNew(mcp, tasks[t].company_data, name, gw, crm_store,
                                      hash_seed, << >>)
                   IN /\ tasks' = [ tasks EXCEPT ![t].pc = "done",
                                                 ![t].create_called = TRUE,
                                                 ![t].result = c.result ]
                      /\ crm_store' = c.store
    /\ UNCHANGED <<fn, pc, gmailVars, mcp, notion, built, hash_seed, run, last, seen,
                   first_id>>

NextRace == \E t \in 1..MaxTasks : RaceSearch(t) \/ RaceCreate(t)

SpecRace == InitRace /\ [][NextRace]_vars

\* the coroutines whose call of the adapter's create made a record of the name
Creators(name) ==
    { t \in 1..MaxTasks :
        /\ tasks[t].company_data.name = name
        /\ tasks[t].create_called
        /\ tasks[t].result.success }

\* the records of the name in the account
Records(name) ==
    { i \in 1..Len(crm_store.companies) : crm_store.companies[i].name = name }

\* no search for the name has failed: the gateway answered each one made
SearchesAnswered(name) ==
    \A t \in 1..MaxTasks :
       (tasks[t].company_data.name = name /\ tasks[t].pc # "search") =>
          tasks[t].search_answered

\* C29: however the create_company(check_existing=True) requests for one
\* company name interleave on a live adapter whose account keeps what is
\* created, the adapter's create makes a record at most once for that name, and
\* the account never holds two records of the name (stated for the runs in
\* which the gateway answers every search for the name).
C29_OneCreatePerName ==
    fn = "race" =>
       \A name \in RaceNames :
          SearchesAnswered(name) =>
             /\ Cardinality(Creators(name)) <= 1
             /\ Cardinality(Records(name)) <= 1

-----------------------------------------------------------------------------
(* The parser once it collects the body *)

\* C30: once the loop of _parse_email_response is collecting the body
\* (in_body is set, by a BODY: tag or by a heuristic subject), each line it
\* goes on to is appended to body_lines as it is and the subject stays what it
\* was, also for a line that starts with 'Subject:' or 'Body:'.
C30_BodyLinesKept ==
    [][ ( /\ fn = "parse" /\ pc = "loop"
          /\ in_body
          /\ idx <= Len(lines)
          /\ idx' = idx + 1 ) =>
           /\ subject' = subject
           /\ body_lines' = Append(body_lines, lines[idx]) ]_vars

-----------------------------------------------------------------------------
(* All the functions together *)

Init ==
    \/ InitParse \/ InitInfer \/ InitTone \/ InitDraft \/ InitContext
    \/ InitMcp \/ InitAgent \/ InitCrm \/ InitChain \/ InitOrch \/ InitRace

Next ==
    \/ ParseLine \/ ParseReturn \/ InferEmailType \/ GetToneGuidance
    \/ DraftEmail \/ BuildEmailContext
    \/ NextMcp \/ NextAgent \/ NextCrm \/ NextChain \/ NextOrch \/ NextRace

Spec == Init /\ [][Next]_vars

====
